---------------------------- MODULE Spec2Model ----------------------------
(***************************************************************************)
(* A model of the bittorrent-client repository: the piece manager          *)
(* (package pieces), the peer-wire connection (package peer) and the       *)
(* download manager (package download).                                    *)
(*                                                                         *)
(* Sizes are scaled: a block is BlockSize bytes, a byte is 0..MaxByte,     *)
(* and the pipeline depth and the peer cap are small numbers, so that     *)
(* the case each property is about is reached in a finite search.         *)
(***************************************************************************)
EXTENDS Integers, Sequences, FiniteSets, TLC

(***************************************************************************)
(* Program constants (scaled) and bounds of the search.                    *)
(***************************************************************************)
\* pieces.BlockSize: 16384 in the source, scaled to 2 bytes.
BlockSize == 2
\* PeerConnection.maxRequests: 10 in the source, scaled to 2.
maxRequests == 2
\* DownloadManager.maxPeers: 50 in the source, scaled to 2.
maxPeers == 2

\* Largest byte value a block carries.
MaxByte == 1
\* Longest data of one AddBlock call made directly on the piece manager.
MaxBlockLen == 3
\* PieceState.Downloaded only grows: a record is fed at most its piece's length
\* plus MaxOverDownload bytes.
MaxOverDownload == 0
\* Peer sessions of the download manager.
NumSessions == 2
\* Refill attempts (requestBlocks goroutines) of one session alive at a time.
MaxRefills == 2

Nil == "nil"

Bytes == 0..MaxByte

RECURSIVE Pow2(_)
Pow2(k) == IF k <= 0 THEN 1 ELSE 2 * Pow2(k - 1)

Min(a, b) == IF a < b THEN a ELSE b

(***************************************************************************)
(* Bitfield (package pieces)                                               *)
(***************************************************************************)
\* 0x80 >> bitIndex
BitMask(bitIndex) == 128 \div Pow2(bitIndex)

TestBit(byte, bitIndex) == (byte \div BitMask(bitIndex)) % 2 = 1

NewBitfield(numPieces) ==
    [data |-> [k \in 1..((numPieces + 7) \div 8) |-> 0], size |-> numPieces]

NewBitfieldFromBytes(data, numPieces) ==
    LET expectedBytes == (numPieces + 7) \div 8
        padded == [k \in 1..expectedBytes |-> IF k <= Len(data) THEN data[k] ELSE 0]
    IN  [data |-> IF Len(data) < expectedBytes THEN padded ELSE data,
         size |-> numPieces]

Bitfield_HasPiece(bf, pieceIndex) ==
    IF pieceIndex < 0 \/ pieceIndex >= bf.size
    THEN FALSE
    ELSE TestBit(bf.data[(pieceIndex \div 8) + 1], pieceIndex % 8)

Bitfield_SetPiece(bf, pieceIndex) ==
    IF pieceIndex < 0 \/ pieceIndex >= bf.size
    THEN [bf |-> bf, err |-> "out of range"]
    ELSE LET k == (pieceIndex \div 8) + 1
             b == bf.data[k]
             nb == IF TestBit(b, pieceIndex % 8) THEN b ELSE b + BitMask(pieceIndex % 8)
         IN  [bf |-> [bf EXCEPT !.data[k] = nb], err |-> Nil]

\* ClearPiece clearing the whole byte of the piece
Bitfield_ClearPiece_WholeByte(bf, pieceIndex) ==
    IF pieceIndex < 0 \/ pieceIndex >= bf.size
    THEN [bf |-> bf, err |-> "out of range"]
    ELSE [bf |-> [bf EXCEPT !.data[(pieceIndex \div 8) + 1] = 0], err |-> Nil]

Bitfield_ClearPiece(bf, pieceIndex) ==
    IF pieceIndex < 0 \/ pieceIndex >= bf.size
    THEN [bf |-> bf, err |-> "out of range"]
    ELSE LET k == (pieceIndex \div 8) + 1
             b == bf.data[k]
             nb == IF TestBit(b, pieceIndex % 8) THEN b - BitMask(pieceIndex % 8) ELSE b
         IN  [bf |-> [bf EXCEPT !.data[k] = nb], err |-> Nil]

Bitfield_IsComplete(bf) == \A i \in 0..(bf.size - 1) : Bitfield_HasPiece(bf, i)

\* The missing indices; the source returns them in ascending order.
Bitfield_GetMissingPieces(bf) == {i \in 0..(bf.size - 1) : ~Bitfield_HasPiece(bf, i)}

(***************************************************************************)
(* SHA-1, idealised: a digest determines its input.                        *)
(***************************************************************************)
Sha1(data) == <<"sha1", Len(data), data>>

(***************************************************************************)
(* PieceManager (package pieces). A manager is a record                    *)
(*   pieceLength, totalLength, pieceHashes, numPieces, bitfield,           *)
(*   pendingPieces (index -> PieceState), completePieces (index -> data).  *)
(* Each operation returns the manager after the call and what it returns.  *)
(***************************************************************************)
NewPieceManager(pieceLength, totalLength, pieceHashes) ==
    [pieceLength    |-> pieceLength,
     totalLength    |-> totalLength,
     pieceHashes    |-> pieceHashes,
     numPieces      |-> Len(pieceHashes),
     bitfield       |-> NewBitfield(Len(pieceHashes)),
     pendingPieces  |-> <<>>,
     completePieces |-> <<>>]

\* delete(m, k) of a Go map
MapDelete(m, k) == [x \in (DOMAIN m) \ {k} |-> m[x]]
\* m[k] = v of a Go map
MapPut(m, k, v) == [x \in (DOMAIN m) \cup {k} |-> IF x = k THEN v ELSE m[x]]

GetPieceLength(p, pieceIndex) ==
    IF pieceIndex < 0 \/ pieceIndex >= p.numPieces
    THEN 0
    ELSE IF pieceIndex = p.numPieces - 1
         THEN LET lastPieceLength == p.totalLength % p.pieceLength
              IN  IF lastPieceLength = 0 THEN p.pieceLength ELSE lastPieceLength
         ELSE p.pieceLength

\* the offsets visited by: for offset := 0; offset < Length; offset += BlockSize
GridOffsets(length) == {o \in 0..(length - 1) : o % BlockSize = 0}

StartPiece(p, pieceIndex) ==
    IF pieceIndex < 0 \/ pieceIndex >= p.numPieces
    THEN [pm |-> p, err |-> "out of range"]
    ELSE IF Bitfield_HasPiece(p.bitfield, pieceIndex)
    THEN [pm |-> p, err |-> "already complete"]
    ELSE IF pieceIndex \in DOMAIN p.pendingPieces
    THEN [pm |-> p, err |-> "already in progress"]
    ELSE [pm |-> [p EXCEPT !.pendingPieces =
                     MapPut(@, pieceIndex,
                            [Index      |-> pieceIndex,
                             Length     |-> GetPieceLength(p, pieceIndex),
                             Hash       |-> p.pieceHashes[pieceIndex + 1],
                             Downloaded |-> 0,
                             Blocks     |-> <<>>,
                             Requested  |-> {}])],
          err |-> Nil]

\* The offsets the loop of GetNextBlockRequest does not skip.
Unrequested(piece) ==
    {o \in GridOffsets(piece.Length) : o \notin piece.Requested /\ o \notin DOMAIN piece.Blocks}

\* the nil *BlockRequest
NoRequest == [PieceIndex |-> -1, Begin |-> -1, Length |-> 0]

\* GetNextBlockRequest walking the grid from its end
GetNextBlockRequest_Highest(p, pieceIndex) ==
    IF pieceIndex \notin DOMAIN p.pendingPieces
    THEN [pm |-> p, req |-> NoRequest, err |-> "not in progress"]
    ELSE LET piece == p.pendingPieces[pieceIndex]
             free  == Unrequested(piece)
         IN  IF free = {}
             THEN [pm |-> p, req |-> NoRequest, err |-> Nil]
             ELSE LET offset == CHOOSE o \in free : \A o2 \in free : o >= o2
                      blockLength == IF offset + BlockSize > piece.Length
                                     THEN piece.Length - offset
                                     ELSE BlockSize
                  IN  [pm  |-> [p EXCEPT !.pendingPieces[pieceIndex].Requested = @ \cup {offset}],
                       req |-> [PieceIndex |-> pieceIndex, Begin |-> offset, Length |-> blockLength],
                       err |-> Nil]

GetNextBlockRequest(p, pieceIndex) ==
    IF pieceIndex \notin DOMAIN p.pendingPieces
    THEN [pm |-> p, req |-> NoRequest, err |-> "not in progress"]
    ELSE LET piece == p.pendingPieces[pieceIndex]
             free  == Unrequested(piece)
         IN  IF free = {}
             THEN [pm |-> p, req |-> NoRequest, err |-> Nil]
             ELSE LET offset == CHOOSE o \in free : \A o2 \in free : o <= o2
                      blockLength == IF offset + BlockSize > piece.Length
                                     THEN piece.Length - offset
                                     ELSE BlockSize
                  IN  [pm  |-> [p EXCEPT !.pendingPieces[pieceIndex].Requested = @ \cup {offset}],
                       req |-> [PieceIndex |-> pieceIndex, Begin |-> offset, Length |-> blockLength],
                       err |-> Nil]

isPieceComplete(piece) ==
    /\ \A o \in GridOffsets(piece.Length) : o \in DOMAIN piece.Blocks
    /\ LET RECURSIVE Total(_)
           Total(S) == IF S = {} THEN 0
                       ELSE LET o == CHOOSE x \in S : TRUE
                            IN  Len(piece.Blocks[o]) + Total(S \ {o})
       IN  Total(GridOffsets(piece.Length)) = piece.Length

\* pieceData := make([]byte, Length); for each grid offset in ascending order
\* copy(pieceData[offset:], Blocks[offset]): a later block overwrites an earlier one.
AssemblePiece(piece) ==
    [k \in 1..piece.Length |->
        LET cover == {o \in GridOffsets(piece.Length) :
                         /\ o \in DOMAIN piece.Blocks
                         /\ o <= k - 1
                         /\ k - 1 < o + Len(piece.Blocks[o])}
        IN  IF cover = {} THEN 0
            ELSE LET o == CHOOSE x \in cover : \A y \in cover : y <= x
                 IN  piece.Blocks[o][k - o]]

\* a completePiece that skips the comparison
HashMismatch_Never(pieceData, piece) == FALSE

\* hash != piece.Hash
HashMismatch(pieceData, piece) == Sha1(pieceData) # piece.Hash

\* a completePiece that keeps the download record when the digest differs
completePiece_KeepsRecord(p, pieceIndex) ==
    LET piece == p.pendingPieces[pieceIndex]
        pieceData == AssemblePiece(piece)
    IN  IF HashMismatch(pieceData, piece)
        THEN [pm |-> p, err |-> "hash verification failed"]
        ELSE [pm |-> [p EXCEPT !.bitfield = Bitfield_SetPiece(@, pieceIndex).bf,
                               !.completePieces = MapPut(@, pieceIndex, pieceData),
                               !.pendingPieces = MapDelete(@, pieceIndex)],
              err |-> Nil]

completePiece(p, pieceIndex) ==
    LET piece == p.pendingPieces[pieceIndex]
        pieceData == AssemblePiece(piece)
    IN  IF HashMismatch(pieceData, piece)
        THEN [pm |-> [p EXCEPT !.pendingPieces = MapDelete(@, pieceIndex)],
              err |-> "hash verification failed"]
        ELSE [pm |-> [p EXCEPT !.bitfield = Bitfield_SetPiece(@, pieceIndex).bf,
                               !.completePieces = MapPut(@, pieceIndex, pieceData),
                               !.pendingPieces = MapDelete(@, pieceIndex)],
              err |-> Nil]

AddBlock(p, pieceIndex, begin, data) ==
    IF pieceIndex \notin DOMAIN p.pendingPieces
    THEN [pm |-> p, err |-> "not in progress"]
    ELSE LET piece == p.pendingPieces[pieceIndex]
         IN  IF begin < 0 \/ begin >= piece.Length
             THEN [pm |-> p, err |-> "invalid block offset"]
             ELSE IF begin + Len(data) > piece.Length
             THEN [pm |-> p, err |-> "beyond piece boundary"]
             ELSE LET stored == [piece EXCEPT !.Blocks = MapPut(@, begin, data),
                                              !.Downloaded = @ + Len(data)]
                      p2 == [p EXCEPT !.pendingPieces[pieceIndex] = stored]
                  IN  IF isPieceComplete(stored)
                      THEN completePiece(p2, pieceIndex)
                      ELSE [pm |-> p2, err |-> Nil]

CancelPiece(p, pieceIndex) ==
    [p EXCEPT !.pendingPieces = MapDelete(@, pieceIndex)]

PieceManager_GetMissingPieces(p) == Bitfield_GetMissingPieces(p.bitfield)

PieceManager_IsComplete(p) == Bitfield_IsComplete(p.bitfield)


(***************************************************************************)
(* Connection (package peer): the message types, the wire encoding of the  *)
(* integers in a payload, and the state a received message leaves.         *)
(***************************************************************************)
MsgChoke == 0
MsgUnchoke == 1
MsgInterested == 2
MsgNotInterested == 3
MsgHave == 4
MsgBitfield == 5
MsgRequest == 6
MsgPiece == 7
MsgCancel == 8
MsgPort == 9
\* the Type ReceiveMessage gives a zero-length frame
MsgKeepAlive == 255

\* binary.BigEndian.Uint32(payload[from:from+4]), from counted from 0
Uint32At(payload, from) ==
    payload[from + 1] * 16777216 + payload[from + 2] * 65536
        + payload[from + 3] * 256 + payload[from + 4]

\* binary.BigEndian.PutUint32
PutUint32(n) ==
    <<(n \div 16777216) % 256, (n \div 65536) % 256, (n \div 256) % 256, n % 256>>

NewConnection ==
    [choked |-> TRUE, choking |-> TRUE, interested |-> FALSE,
     peerInterested |-> FALSE, bitfield |-> <<>>]

\* a handleHave that drops a have beyond the end of the bitfield
handleHave_NoGrow(c, pieceIndex) ==
    IF pieceIndex \div 8 >= Len(c.bitfield) THEN c
    ELSE LET b == c.bitfield[(pieceIndex \div 8) + 1]
             nb == IF TestBit(b, pieceIndex % 8) THEN b ELSE b + BitMask(pieceIndex % 8)
         IN  [c EXCEPT !.bitfield[(pieceIndex \div 8) + 1] = nb]

handleHave(c, pieceIndex) ==
    LET byteIndex == pieceIndex \div 8
        grown == IF byteIndex >= Len(c.bitfield)
                 THEN [k \in 1..(byteIndex + 1) |->
                          IF k <= Len(c.bitfield) THEN c.bitfield[k] ELSE 0]
                 ELSE c.bitfield
        b == grown[byteIndex + 1]
        nb == IF TestBit(b, pieceIndex % 8) THEN b ELSE b + BitMask(pieceIndex % 8)
    IN  [c EXCEPT !.bitfield = [grown EXCEPT ![byteIndex + 1] = nb]]

HandleMessage(c, msg) ==
    CASE msg.Type = MsgChoke -> [conn |-> [c EXCEPT !.choked = TRUE], err |-> Nil]
      [] msg.Type = MsgUnchoke -> [conn |-> [c EXCEPT !.choked = FALSE], err |-> Nil]
      [] msg.Type = MsgInterested -> [conn |-> [c EXCEPT !.peerInterested = TRUE], err |-> Nil]
      [] msg.Type = MsgNotInterested -> [conn |-> [c EXCEPT !.peerInterested = FALSE], err |-> Nil]
      [] msg.Type = MsgHave ->
            IF Len(msg.Payload) # 4
            THEN [conn |-> c, err |-> "invalid have message length"]
            ELSE [conn |-> handleHave(c, Uint32At(msg.Payload, 0)), err |-> Nil]
      [] msg.Type = MsgBitfield -> [conn |-> [c EXCEPT !.bitfield = msg.Payload], err |-> Nil]
      [] msg.Type = MsgRequest ->
            IF Len(msg.Payload) # 12
            THEN [conn |-> c, err |-> "invalid request message length"]
            ELSE [conn |-> c, err |-> Nil]
      [] msg.Type = MsgPiece ->
            IF Len(msg.Payload) < 8
            THEN [conn |-> c, err |-> "invalid piece message length"]
            ELSE [conn |-> c, err |-> Nil]
      [] msg.Type = MsgCancel ->
            IF Len(msg.Payload) # 12
            THEN [conn |-> c, err |-> "invalid cancel message length"]
            ELSE [conn |-> c, err |-> Nil]
      [] OTHER -> [conn |-> c, err |-> Nil]

Connection_HasPiece(c, pieceIndex) ==
    LET byteIndex == pieceIndex \div 8
    IN  IF byteIndex >= Len(c.bitfield) THEN FALSE
        ELSE TestBit(c.bitfield[byteIndex + 1], pieceIndex % 8)

\* an IsChoked that never reports the choke
IsChoked_Never(c) == FALSE

IsChoked(c) == c.choked

(***************************************************************************)
(* RarestFirstStrategy (package download)                                  *)
(***************************************************************************)
\* rfs.pieceCounts[i] of a Go map: 0 for an absent key
CountOf(counts, i) == IF i \in DOMAIN counts THEN counts[i] ELSE 0

\* SelectPiece without the sort: the valid piece that comes first in availablePieces
SelectPiece_FirstValid(counts, availablePieces, peerBitfield) ==
    LET validPieces == {i \in availablePieces : Bitfield_HasPiece(peerBitfield, i)}
    IN  {i \in validPieces : \A j \in validPieces : i <= j}

\* The indices SelectPiece can return: sort.Slice is not stable, so any valid
\* piece of the lowest count can come first. Empty: SelectPiece returns an error.
SelectPiece(counts, availablePieces, peerBitfield) ==
    LET validPieces == {i \in availablePieces : Bitfield_HasPiece(peerBitfield, i)}
    IN  {i \in validPieces : \A j \in validPieces : CountOf(counts, i) <= CountOf(counts, j)}

\* UpdatePeerBitfield: one more peer for every piece of the bitfield
RECURSIVE UpdateFrom(_, _, _)
UpdateFrom(counts, peerBitfield, i) ==
    IF i >= peerBitfield.size THEN counts
    ELSE UpdateFrom(IF Bitfield_HasPiece(peerBitfield, i)
                    THEN MapPut(counts, i, CountOf(counts, i) + 1) ELSE counts,
                    peerBitfield, i + 1)

UpdatePeerBitfield(counts, peerBitfield) == UpdateFrom(counts, peerBitfield, 0)

(***************************************************************************)
(* State                                                                   *)
(***************************************************************************)
VARIABLES
    pm,          \* the PieceManager
    storage,     \* the bytes of the output files, in virtual address order
    last,        \* the last operation performed and what it returned
    content,     \* the bytes of the torrent, as a seeding peer holds them
    verified,    \* history: the pieces for which some AddBlock call found every
                 \* grid block buffered and the assembled / concatenated data
                 \* matching the expected digest
    dm,          \* the DownloadManager: active, peers (address -> registered session)
    pieceCounts, \* RarestFirstStrategy.pieceCounts
    sess,        \* per session: where handlePeer stands, the Connection, the
                 \* pending requests, and history of what went over the wire
    refill,      \* per session: its requestBlocks goroutines
    net,         \* the dials started by AddPeers: address, what the peer answers,
                 \* how far connectToPeer has come, what Connect returned
    wire,        \* a Connection fed directly, with the history of what it was fed
    calc,        \* the inputs and the result of a function applied on its own
    run          \* the program around the download manager: what Run and the
                 \* Runner have done, the announces sent, the goroutines alive

pmVars == <<pm, storage, last, content, verified>>
sessVars == <<dm, pieceCounts, sess, refill>>
netVars == <<net, wire>>
extVars == <<calc, run>>
vars == <<pm, storage, last, content, verified, dm, pieceCounts, sess, refill, net, wire,
          calc, run>>

\* the sessions connectToPeer has set up, and the requestBlocks goroutines a session
\* may have running at a time
Sessions == DOMAIN sess
Slots(s) == DOMAIN refill[s]

(***************************************************************************)
(* The torrents of the search: piece length, total length and content.     *)
(***************************************************************************)
Slice(data, from, n) == [k \in 1..n |-> data[from + k]]

NumPiecesOf(pieceLength, totalLength) == (totalLength + pieceLength - 1) \div pieceLength

\* the "pieces" string of the metainfo: one digest per piece of the content
HashesOf(pieceLength, bytes) ==
    [i \in 1..NumPiecesOf(pieceLength, Len(bytes)) |->
        Sha1(Slice(bytes, (i - 1) * pieceLength,
                   Min(pieceLength, Len(bytes) - (i - 1) * pieceLength)))]

\* a first piece of two grid blocks and a shorter last piece
PMTorrent == [pieceLength |-> 2 * BlockSize, content |-> <<1, 1, 1, 0, 1>>]

\* last: the last call of AddBlock with the piece and the error returned, as long as
\* nothing has touched the piece manager, a session or the peer table since
NoOp == [op |-> "other", piece |-> -1, err |-> Nil]

InitStorage(totalLength) == [k \in 1..totalLength |-> 0]

NoneVerified == [assembled |-> {}, concatenated |-> {}]

(***************************************************************************)
(* History of verification, evaluated on the record AddBlock has stored    *)
(* the block into, independently of what AddBlock then decides.            *)
(***************************************************************************)
AllGridBuffered(piece) == \A o \in GridOffsets(piece.Length) : o \in DOMAIN piece.Blocks

\* the grid blocks one after the other, in offset order
RECURSIVE ConcatFrom(_, _)
ConcatFrom(piece, o) ==
    IF o >= piece.Length THEN <<>>
    ELSE (IF o \in DOMAIN piece.Blocks THEN piece.Blocks[o] ELSE <<>>)
         \o ConcatFrom(piece, o + BlockSize)

ConcatGridBlocks(piece) == ConcatFrom(piece, 0)

\* AddBlock stores the block (none of its three rejections applies)
AddBlockStores(p, pieceIndex, begin, data) ==
    /\ pieceIndex \in DOMAIN p.pendingPieces
    /\ begin >= 0
    /\ begin < p.pendingPieces[pieceIndex].Length
    /\ begin + Len(data) <= p.pendingPieces[pieceIndex].Length

\* the record as AddBlock sees it after storing the block
StoredRecord(p, pieceIndex, begin, data) ==
    [p.pendingPieces[pieceIndex] EXCEPT !.Blocks = MapPut(@, begin, data)]

VerifiedAfter(v, p, pieceIndex, begin, data) ==
    IF ~AddBlockStores(p, pieceIndex, begin, data) THEN v
    ELSE LET rec == StoredRecord(p, pieceIndex, begin, data)
         IN  IF ~AllGridBuffered(rec) THEN v
             ELSE [assembled |->
                      IF Sha1(AssemblePiece(rec)) = p.pieceHashes[pieceIndex + 1]
                      THEN v.assembled \cup {pieceIndex} ELSE v.assembled,
                   concatenated |->
                      IF Sha1(ConcatGridBlocks(rec)) = p.pieceHashes[pieceIndex + 1]
                      THEN v.concatenated \cup {pieceIndex} ELSE v.concatenated]

(***************************************************************************)
(* What a peer sends as the n bytes of piece i from offset begin: the      *)
(* torrent's bytes (zero where the torrent has none), or those with the    *)
(* last byte altered.                                                      *)
(***************************************************************************)
GoodData(p, bytes, i, begin, n) ==
    [k \in 1..n |->
        LET at == i * p.pieceLength + begin + k
        IN  IF begin >= 0 /\ begin + k <= GetPieceLength(p, i) /\ at <= Len(bytes)
            THEN bytes[at] ELSE 0]

BadData(p, bytes, i, begin, n) ==
    [k \in 1..n |->
        IF k = n THEN (GoodData(p, bytes, i, begin, n)[k] + 1) % (MaxByte + 1)
        ELSE GoodData(p, bytes, i, begin, n)[k]]

BlockData(p, bytes, i, begin, n) ==
    {GoodData(p, bytes, i, begin, n), BadData(p, bytes, i, begin, n)}

(***************************************************************************)
(* Sessions as connectToPeer leaves them: handshake done, registered in    *)
(* the peer table, handlePeer about to run.                                *)
(***************************************************************************)
\* wrote is history: the attempt has written a request
IdleRefill == [pc |-> "idle", cnt |-> 0, piece |-> -1, wrote |-> FALSE]

NewSession(addr) ==
    [pc           |-> "start",
     addr         |-> addr,       \* peerConn.addr
     conn         |-> NewConnection,
     closed       |-> FALSE,      \* conn.Close() was called
     pending      |-> {},         \* pendingRequests: the keys <<piece, begin>>
     gotUnchoke   |-> FALSE,      \* history: an unchoke was received
     wroteRequest |-> FALSE,      \* history: a request was written to the peer
     keepAlive    |-> FALSE,      \* the keepAlive goroutine of the session runs
     first        |-> "none",     \* history: the first message written to the peer
     wroteKeepAlive |-> FALSE,    \* history: a keep-alive was written to the peer
     handed       |-> {}]         \* history: handed out by GetNextBlockRequest to
                                  \* this session, not yet received by it

\* the Connection fed directly: nothing received yet
NewWire ==
    [conn         |-> NewConnection,
     lastChoke    |-> -1,         \* history: type of the last choke / unchoke message
     lastInterest |-> -1,         \* history: type of the last interested / not
                                  \* interested message (-1: none yet)
     lastBitfield |-> <<>>,       \* history: payload of the last bitfield message
     haves        |-> {}]         \* history: the indices of the have messages since

\* no dial started, nothing fed to the Connection of SpecWire
InitNet ==
    /\ net = <<>>
    /\ wire = NewWire

\* no function applied on its own, no program around the download manager
NoCalc == [op |-> "none"]
NoRun == [mode |-> "none"]
InitExt ==
    /\ calc = NoCalc
    /\ run = NoRun

InitSessions(numSessions, numRefills) ==
    /\ dm = [active |-> TRUE, peers |-> [a \in 1..numSessions |-> a]]
    /\ pieceCounts = <<>>
    /\ sess = [s \in 1..numSessions |-> NewSession(s)]
    /\ refill = [s \in 1..numSessions |-> [k \in 1..numRefills |-> IdleRefill]]

(***************************************************************************)
(* SpecPM: the piece manager called directly, in any order.                *)
(***************************************************************************)
InitPM ==
    /\ pm = NewPieceManager(PMTorrent.pieceLength, Len(PMTorrent.content),
                            HashesOf(PMTorrent.pieceLength, PMTorrent.content))
    /\ storage = InitStorage(Len(PMTorrent.content))
    /\ last = NoOp
    /\ content = PMTorrent.content
    /\ verified = NoneVerified
    /\ InitSessions(1, 1)
    /\ InitNet
    /\ InitExt

CallStartPiece(i) ==
    LET r == StartPiece(pm, i)
    IN  /\ pm' = r.pm
        /\ last' = NoOp
        /\ UNCHANGED <<storage, content, verified, sessVars, netVars, extVars>>

CallGetNextBlockRequest(i) ==
    LET r == GetNextBlockRequest(pm, i)
    IN  /\ pm' = r.pm
        /\ last' = NoOp
        /\ UNCHANGED <<storage, content, verified, sessVars, netVars, extVars>>

\* Downloaded only grows: the search stops feeding a record at its cap
DownloadedBelowCap(p, i, data) ==
    i \in DOMAIN p.pendingPieces =>
        p.pendingPieces[i].Downloaded + Len(data)
            <= p.pendingPieces[i].Length + MaxOverDownload

CallAddBlock(i, begin, data) ==
    /\ DownloadedBelowCap(pm, i, data)
    /\ LET r == AddBlock(pm, i, begin, data)
       IN  /\ pm' = r.pm
           /\ last' = [op |-> "AddBlock", piece |-> i, err |-> r.err]
           /\ verified' = VerifiedAfter(verified, pm, i, begin, data)
    /\ UNCHANGED <<storage, content, sessVars, netVars, extVars>>

CallCancelPiece(i) ==
    /\ pm' = CancelPiece(pm, i)
    /\ last' = NoOp
    /\ UNCHANGED <<storage, content, verified, sessVars, netVars, extVars>>

NextPM ==
    \/ \E i \in -1..pm.numPieces : CallStartPiece(i)
    \/ \E i \in 0..(pm.numPieces - 1) : CallGetNextBlockRequest(i)
    \/ \E i \in 0..(pm.numPieces - 1), begin \in -1..pm.pieceLength,
          n \in 1..MaxBlockLen :
             \E data \in BlockData(pm, content, i, begin, n) : CallAddBlock(i, begin, data)
    \/ \E i \in 0..(pm.numPieces - 1) : CallCancelPiece(i)

SpecPM == InitPM /\ [][NextPM]_vars

(***************************************************************************)
(* Spec: the download manager with its peer sessions. Each session runs    *)
(* handlePeer; every unchoke, every piece and the start of the session     *)
(* start a requestBlocks goroutine, which runs concurrently with the       *)
(* message loop and with the other sessions.                               *)
(***************************************************************************)

\* a message type the switch of HandleMessage does not know
UnknownTag == 20

Message(type, payload) == [Type |-> type, Payload |-> payload]

\* the length GetNextBlockRequest asks for at a grid offset
GridLength(p, i, begin) == Min(BlockSize, GetPieceLength(p, i) - begin)

PieceMessages(p, bytes) ==
    UNION {{Message(MsgPiece, PutUint32(i) \o PutUint32(begin) \o data) :
               data \in BlockData(p, bytes, i, begin, GridLength(p, i, begin))} :
           <<i, begin>> \in {<<i, begin>> \in (0..(p.numPieces - 1)) \X (0..(p.pieceLength - 1)) :
                                begin \in GridOffsets(GetPieceLength(p, i))}}

\* the bitfield of a peer that has every piece (numPieces <= 8)
SeedBitfield(p) == <<256 - Pow2(8 - p.numPieces)>>

\* what a peer may send at any moment: well-formed messages of every kind the
\* session reacts to, one of an unknown type and one ill-formed
WireMessages(p, bytes) ==
    {Message(MsgChoke, <<>>), Message(MsgUnchoke, <<>>), Message(MsgKeepAlive, <<>>),
     Message(UnknownTag, <<>>), Message(MsgBitfield, SeedBitfield(p)),
     Message(MsgHave, <<>>)}
    \cup {Message(MsgHave, PutUint32(i)) : i \in 0..(p.numPieces - 1)}
    \cup PieceMessages(p, bytes)

Init ==
    /\ pm = NewPieceManager(PMTorrent.pieceLength, Len(PMTorrent.content),
                            HashesOf(PMTorrent.pieceLength, PMTorrent.content))
    /\ storage = InitStorage(Len(PMTorrent.content))
    /\ last = NoOp
    /\ content = PMTorrent.content
    /\ verified = NoneVerified
    /\ InitSessions(1, MaxRefills)
    /\ InitNet
    /\ InitExt

FreeSlots(rf, s) == {k \in DOMAIN rf[s] : rf[s][k].pc = "idle"}

\* go dm.requestBlocks(peerConn)
Spawn(rf, s) ==
    LET k == CHOOSE x \in FreeSlots(rf, s) : \A y \in FreeSlots(rf, s) : x <= y
    IN  [rf EXCEPT ![s][k] = [pc |-> "check", cnt |-> 0, piece |-> -1, wrote |-> FALSE]]

removePeer(d, addr) == [d EXCEPT !.peers = MapDelete(@, addr)]

\* an end of handlePeer that leaves the connection open
SessionEnds_KeepsOpen(ss, s) ==
    [ss EXCEPT ![s].pc = "exited", ![s].handed = {}]

\* the deferred function of handlePeer: removePeer, then conn.Close(). The requests
\* the session holds stop being outstanding; its pendingRequests are left as they are.
SessionEnds(ss, s) ==
    [ss EXCEPT ![s].pc = "exited", ![s].closed = TRUE, ![s].handed = {}]

\* the first message written to the peer, after one more of the given kind
FirstWritten(first, kind) == IF first = "none" THEN kind ELSE first

\* handlePeer up to the message loop: SendInterested, go keepAlive, go requestBlocks
HandlePeerStart(s, ok) ==
    /\ sess[s].pc = "start"
    /\ IF sess[s].closed \/ ~ok
       THEN /\ sess' = SessionEnds([sess EXCEPT ![s].conn.interested = TRUE], s)
            /\ dm' = removePeer(dm, sess[s].addr)
            /\ UNCHANGED refill
       ELSE /\ sess' = [sess EXCEPT ![s].pc = "loop", ![s].conn.interested = TRUE,
                                    ![s].keepAlive = TRUE,
                                    ![s].first = FirstWritten(@, "interested")]
            /\ refill' = Spawn(refill, s)
            /\ UNCHANGED dm
    /\ last' = NoOp
    /\ UNCHANGED <<pm, storage, content, verified, pieceCounts, netVars, extVars>>

\* ReceiveMessage fails (I/O error, read timeout, closed connection) or the loop
\* finds dm.active false: handlePeer returns
HandlePeerExit(s) ==
    /\ sess[s].pc = "loop"
    /\ sess' = SessionEnds(sess, s)
    /\ dm' = removePeer(dm, sess[s].addr)
    /\ last' = NoOp
    /\ UNCHANGED <<pm, storage, content, verified, pieceCounts, refill, netVars, extVars>>

\* a turn of keepAlive that does not wait for handlePeer to have sent interested
KeepAlive_Unstarted(s) ==
    /\ ~sess[s].closed
    /\ sess' = [sess EXCEPT ![s].wroteKeepAlive = TRUE,
                            ![s].first = FirstWritten(@, "keepalive")]
    /\ last' = NoOp
    /\ UNCHANGED <<pm, storage, content, verified, dm, pieceCounts, refill, netVars, extVars>>

\* one tick of keepAlive: it returns when the peer was inactive for three minutes
\* or when SendKeepAlive fails on the closed connection, else a keep-alive is written
KeepAlive(s) ==
    /\ sess[s].keepAlive
    /\ \/ sess' = [sess EXCEPT ![s].keepAlive = FALSE]
       \/ /\ ~sess[s].closed
          /\ sess' = [sess EXCEPT ![s].wroteKeepAlive = TRUE,
                                  ![s].first = FirstWritten(@, "keepalive")]
    /\ last' = NoOp
    /\ UNCHANGED <<pm, storage, content, verified, dm, pieceCounts, refill, netVars, extVars>>

\* one turn of the message loop for a piece message: dm.handleMessage, case MsgPiece
HandlePiece(s, msg) ==
    LET pieceIndex == Uint32At(msg.Payload, 0)
        begin == Uint32At(msg.Payload, 4)
        data == SubSeq(msg.Payload, 9, Len(msg.Payload))
        key == <<pieceIndex, begin>>
        r == AddBlock(pm, pieceIndex, begin, data)
    IN  /\ DownloadedBelowCap(pm, pieceIndex, data)
        /\ FreeSlots(refill, s) # {}
        /\ sess' = [sess EXCEPT ![s].pending = @ \ {key}, ![s].handed = @ \ {key}]
        /\ pm' = r.pm
        /\ last' = [op |-> "AddBlock", piece |-> pieceIndex, err |-> r.err]
        /\ verified' = VerifiedAfter(verified, pm, pieceIndex, begin, data)
        /\ refill' = Spawn(refill, s)
        /\ UNCHANGED <<storage, content, dm, pieceCounts>>

\* one turn of the message loop: ReceiveMessage, dm.handleMessage and, but for an
\* unchoke, conn.HandleMessage. An unchoke starts the goroutine first and is applied
\* to the connection by the next step.
HandlePeerMessage(s, msg) ==
    /\ sess[s].pc = "loop"
    /\ dm.active
    /\ ~sess[s].closed
    /\ UNCHANGED <<netVars, extVars>>
    /\ IF msg.Type = MsgPiece /\ Len(msg.Payload) >= 8
       THEN HandlePiece(s, msg)
       ELSE /\ last' = NoOp
            /\ UNCHANGED <<pm, storage, content, verified, pieceCounts>>
            /\ IF msg.Type = MsgUnchoke
               THEN /\ FreeSlots(refill, s) # {}
                    /\ refill' = Spawn(refill, s)
                    /\ sess' = [sess EXCEPT ![s].pc = "unchoke", ![s].gotUnchoke = TRUE]
                    /\ UNCHANGED dm
               ELSE LET r == HandleMessage(sess[s].conn, msg)
                    IN  IF r.err # Nil \/ msg.Type = MsgPiece
                        THEN /\ sess' = SessionEnds(sess, s)
                             /\ dm' = removePeer(dm, sess[s].addr)
                             /\ UNCHANGED refill
                        ELSE /\ sess' = [sess EXCEPT ![s].conn = r.conn]
                             /\ UNCHANGED <<dm, refill>>

\* conn.HandleMessage of the unchoke
HandlePeerUnchoke(s) ==
    /\ sess[s].pc = "unchoke"
    /\ sess' = [sess EXCEPT ![s].pc = "loop",
                            ![s].conn = HandleMessage(@, Message(MsgUnchoke, <<>>)).conn]
    /\ last' = NoOp
    /\ UNCHANGED <<pm, storage, content, verified, dm, pieceCounts, refill, netVars, extVars>>

\* requestBlocks: if peerConn.conn.IsChoked() { return }
RequestBlocksCheck(s, k) ==
    /\ refill[s][k].pc = "check"
    /\ refill' = [refill EXCEPT ![s][k] =
                     IF IsChoked(sess[s].conn) THEN IdleRefill
                     ELSE [pc |-> "select", cnt |-> 0, piece |-> -1,
                           wrote |-> FALSE]]
    /\ UNCHANGED <<pm, storage, last, content, verified, dm, pieceCounts, sess, netVars, extVars>>

\* requestBlocks from the count of the pending requests to StartPiece
RequestBlocksSelect(s, k) ==
    /\ refill[s][k].pc = "select"
    /\ LET pendingCount == Cardinality(sess[s].pending)
           missingPieces == PieceManager_GetMissingPieces(pm)
           peerBitfield == NewBitfieldFromBytes(sess[s].conn.bitfield, pm.bitfield.size)
           choice == SelectPiece(pieceCounts, missingPieces, peerBitfield)
       IN  IF pendingCount >= maxRequests \/ missingPieces = {} \/ choice = {}
           THEN /\ refill' = [refill EXCEPT ![s][k] = IdleRefill]
                /\ pm' = pm
           ELSE \E pieceIndex \in choice :
                   LET r == StartPiece(pm, pieceIndex)
                   IN  /\ pm' = r.pm
                       /\ refill' = [refill EXCEPT ![s][k] =
                                        IF r.err # Nil /\ r.err # "already in progress"
                                        THEN IdleRefill
                                        ELSE [pc |-> "loop", cnt |-> pendingCount,
                                              piece |-> pieceIndex, wrote |-> FALSE]]
    /\ last' = NoOp
    /\ UNCHANGED <<storage, content, verified, dm, pieceCounts, sess, netVars, extVars>>

\* one turn of the loop of requestBlocks: GetNextBlockRequest, SendRequest, and the
\* request recorded in pendingRequests
RequestBlocksNext(s, k) ==
    /\ refill[s][k].pc = "loop"
    /\ LET r == GetNextBlockRequest(pm, refill[s][k].piece)
           key == <<r.req.PieceIndex, r.req.Begin>>
           cnt == refill[s][k].cnt + 1
       IN  /\ pm' = r.pm
           /\ IF r.err # Nil \/ r.req = NoRequest
              THEN /\ refill' = [refill EXCEPT ![s][k] = IdleRefill]
                   /\ UNCHANGED sess
              ELSE IF sess[s].closed
              THEN \* SendRequest fails on the closed connection
                   /\ refill' = [refill EXCEPT ![s][k] = IdleRefill]
                   /\ UNCHANGED sess
              ELSE /\ sess' = [sess EXCEPT ![s].pending = @ \cup {key},
                                           ![s].handed = @ \cup {key},
                                           ![s].wroteRequest = TRUE,
                                           ![s].first = FirstWritten(@, "request")]
                   /\ refill' = [refill EXCEPT ![s][k] =
                                    IF cnt < maxRequests
                                    THEN [@ EXCEPT !.cnt = cnt, !.wrote = TRUE]
                                    ELSE IdleRefill]
    /\ last' = NoOp
    /\ UNCHANGED <<storage, content, verified, dm, pieceCounts, netVars, extVars>>

\* Stop: for _, peerConn := range dm.peers { peerConn.conn.Close() }
ClosePeers(ss, d) ==
    [s \in DOMAIN ss |->
        IF \E a \in DOMAIN d.peers : d.peers[a] = s
        THEN [ss[s] EXCEPT !.closed = TRUE] ELSE ss[s]]

\* DownloadManager.Stop
Stop ==
    /\ dm.active
    /\ dm' = [active |-> FALSE, peers |-> <<>>]
    /\ sess' = ClosePeers(sess, dm)
    /\ last' = NoOp
    /\ UNCHANGED <<pm, storage, content, verified, pieceCounts, refill, netVars, extVars>>

Next ==
    \/ \E s \in Sessions, ok \in BOOLEAN : HandlePeerStart(s, ok)
    \/ \E s \in Sessions : \E msg \in WireMessages(pm, content) : HandlePeerMessage(s, msg)
    \/ \E s \in Sessions : HandlePeerUnchoke(s)
    \/ \E s \in Sessions : HandlePeerExit(s)
    \/ \E s \in Sessions : \E k \in Slots(s) : RequestBlocksCheck(s, k)
    \/ \E s \in Sessions : \E k \in Slots(s) : RequestBlocksSelect(s, k)
    \/ \E s \in Sessions : \E k \in Slots(s) : RequestBlocksNext(s, k)
    \/ Stop

Spec == Init /\ [][Next]_vars

(***************************************************************************)
(* SpecSwarm: several sessions sharing the piece manager, each with a peer *)
(* that announces every piece, unchokes, and sends blocks whether they     *)
(* were requested or not.                                                  *)
(***************************************************************************)
\* the requestBlocks goroutines a session of the swarm may have running at a time
SwarmRefills == 1

\* one piece of two grid blocks
SwarmTorrent == [pieceLength |-> 2 * BlockSize, content |-> <<1, 0, 1, 1>>]

SwarmMessages(p, bytes) ==
    {Message(MsgUnchoke, <<>>), Message(MsgBitfield, SeedBitfield(p))}
    \cup PieceMessages(p, bytes)

InitSwarm ==
    /\ pm = NewPieceManager(SwarmTorrent.pieceLength, Len(SwarmTorrent.content),
                            HashesOf(SwarmTorrent.pieceLength, SwarmTorrent.content))
    /\ storage = InitStorage(Len(SwarmTorrent.content))
    /\ last = NoOp
    /\ content = SwarmTorrent.content
    /\ verified = NoneVerified
    /\ InitSessions(NumSessions, SwarmRefills)
    /\ InitNet
    /\ InitExt

NextSwarm ==
    \/ \E s \in Sessions : HandlePeerStart(s, TRUE)
    \/ \E s \in Sessions : \E msg \in SwarmMessages(pm, content) : HandlePeerMessage(s, msg)
    \/ \E s \in Sessions : HandlePeerUnchoke(s)
    \/ \E s \in Sessions : HandlePeerExit(s)
    \/ \E s \in Sessions : \E k \in Slots(s) : RequestBlocksCheck(s, k)
    \/ \E s \in Sessions : \E k \in Slots(s) : RequestBlocksSelect(s, k)
    \/ \E s \in Sessions : \E k \in Slots(s) : RequestBlocksNext(s, k)

SpecSwarm == InitSwarm /\ [][NextSwarm]_vars

(***************************************************************************)
(* SpecWire: one Connection fed any sequence of well-framed messages.      *)
(***************************************************************************)
\* highest piece index a have message carries
MaxHave == 9

\* payloads of the bitfield messages fed
WireBitfields == {<<>>, <<0>>, <<129>>, <<64, 128>>}

\* messages of the types that carry no connection state, well-formed and not
WireOthers ==
    {Message(MsgRequest, PutUint32(0) \o PutUint32(0) \o PutUint32(BlockSize)),
     Message(MsgRequest, <<>>),
     Message(MsgCancel, PutUint32(0) \o PutUint32(0) \o PutUint32(BlockSize)),
     Message(MsgCancel, <<0>>),
     Message(MsgPort, <<26, 225>>),
     Message(MsgPiece, PutUint32(0) \o PutUint32(0) \o <<1>>),
     Message(MsgPiece, <<>>),
     Message(MsgHave, <<0, 0, 1>>),
     Message(MsgKeepAlive, <<>>),
     Message(UnknownTag, <<1>>)}

InitWire ==
    /\ pm = NewPieceManager(PMTorrent.pieceLength, Len(PMTorrent.content),
                            HashesOf(PMTorrent.pieceLength, PMTorrent.content))
    /\ storage = InitStorage(Len(PMTorrent.content))
    /\ last = NoOp
    /\ content = PMTorrent.content
    /\ verified = NoneVerified
    /\ InitSessions(1, 1)
    /\ InitNet
    /\ InitExt

\* HandleMessage of a choke, unchoke, interested or not interested message
ReceiveFlag(type) ==
    /\ wire' = [wire EXCEPT
                   !.conn = HandleMessage(@, Message(type, <<>>)).conn,
                   !.lastChoke = IF type \in {MsgChoke, MsgUnchoke} THEN type ELSE @,
                   !.lastInterest = IF type \in {MsgInterested, MsgNotInterested}
                                    THEN type ELSE @]
    /\ UNCHANGED <<pmVars, sessVars, net, extVars>>

\* HandleMessage of a bitfield message
ReceiveBitfield(payload) ==
    /\ wire' = [wire EXCEPT
                   !.conn = HandleMessage(@, Message(MsgBitfield, payload)).conn,
                   !.lastBitfield = payload,
                   !.haves = {}]
    /\ UNCHANGED <<pmVars, sessVars, net, extVars>>

\* HandleMessage of a have message for piece index
ReceiveHave(index) ==
    /\ wire' = [wire EXCEPT
                   !.conn = HandleMessage(@, Message(MsgHave, PutUint32(index))).conn,
                   !.haves = @ \cup {index}]
    /\ UNCHANGED <<pmVars, sessVars, net, extVars>>

\* HandleMessage of any other message; an error leaves the Connection as it is
ReceiveOther(msg) ==
    /\ wire' = [wire EXCEPT !.conn = HandleMessage(@, msg).conn]
    /\ UNCHANGED <<pmVars, sessVars, net, extVars>>

NextWire ==
    \/ \E type \in {MsgChoke, MsgUnchoke, MsgInterested, MsgNotInterested} : ReceiveFlag(type)
    \/ \E payload \in WireBitfields : ReceiveBitfield(payload)
    \/ \E index \in 0..MaxHave : ReceiveHave(index)
    \/ \E msg \in WireOthers : ReceiveOther(msg)

SpecWire == InitWire /\ [][NextWire]_vars

(***************************************************************************)
(* SpecPeers: AddPeers on tracker responses, the dials it starts           *)
(* (connectToPeer, peer.Connect with its handshake) and the sessions they  *)
(* register, up to the start of their message loops.                       *)
(***************************************************************************)
\* dials started in one run
MaxDials == 3

\* our info hash (20 bytes in the source, 2 here)
OurInfoHash == <<1, 0>>

\* the peers a tracker response may list: more valid ones than maxPeers, a
\* loopback address and a port out of range
TrackerPeers ==
    {[IP |-> ip, Port |-> 6881] : ip \in {"10.0.0.1", "10.0.0.2", "10.0.0.3", "127.0.0.1"}}
    \cup {[IP |-> "10.0.0.4", Port |-> 0]}

\* net.ParseIP(ip) != nil and ip.IsLoopback(), on the addresses of the search
ParseIP(ip) == ip \in {q.IP : q \in TrackerPeers}
IsLoopback(ip) == ip = "127.0.0.1"

IsValidPeer(q) ==
    /\ ~(q.IP = "" \/ q.Port <= 0 \/ q.Port > 65535)
    /\ ParseIP(q.IP)
    /\ ~IsLoopback(q.IP)

\* fmt.Sprintf("%s:%d", peerInfo.IP, peerInfo.Port)
AddrOf(q) == <<q.IP, q.Port>>

\* what the remote end does with a dial: refuses it (up false), accepts it and
\* sends no complete handshake (infoHash empty), or replies with an info hash
Answers ==
    {[up |-> FALSE, infoHash |-> <<>>], [up |-> TRUE, infoHash |-> <<>>]}
    \cup {[up |-> TRUE, infoHash |-> h] : h \in [1..Len(OurInfoHash) -> Bytes]}

NewDial(addr) ==
    [addr |-> addr, state |-> "dialing", ans |-> [up |-> FALSE, infoHash |-> <<>>],
     err |-> Nil, closed |-> FALSE]

\* the go dm.connectToPeer(addr, ...) statements of one AddPeers call
RECURSIVE SpawnDials(_, _)
SpawnDials(dials, addrs) ==
    IF addrs = {} THEN dials
    ELSE LET a == CHOOSE x \in addrs : TRUE
         IN  SpawnDials(Append(dials, NewDial(a)), addrs \ {a})

\* a performHandshake that accepts any info hash
InfoHashMismatch_Never(remote, ours) == FALSE

\* remoteHandshake.InfoHash != c.infoHash
InfoHashMismatch(remote, ours) == remote # ours

performHandshake(infoHash, ans) ==
    IF ans.infoHash = <<>> THEN "failed to receive handshake"
    ELSE IF InfoHashMismatch(ans.infoHash, infoHash) THEN "info hash mismatch"
    ELSE Nil

\* peer.Connect: what it returns and whether it has closed the socket
Connect(infoHash, ans) ==
    IF ~ans.up
    THEN [ok |-> FALSE, err |-> "failed to connect to peer", closed |-> FALSE]
    ELSE IF performHandshake(infoHash, ans) # Nil
    THEN [ok |-> FALSE, err |-> "handshake failed", closed |-> TRUE]
    ELSE [ok |-> TRUE, err |-> Nil, closed |-> FALSE]

InitPeers ==
    /\ pm = NewPieceManager(PMTorrent.pieceLength, Len(PMTorrent.content),
                            HashesOf(PMTorrent.pieceLength, PMTorrent.content))
    /\ storage = InitStorage(Len(PMTorrent.content))
    /\ last = NoOp
    /\ content = PMTorrent.content
    /\ verified = NoneVerified
    /\ InitSessions(0, 0)
    /\ InitNet
    /\ InitExt

\* AddPeers holds dm.mutex for the whole call, so len(dm.peers) is the same at every
\* turn of its loop: with the table below maxPeers every valid peer not in the table
\* is dialed, otherwise the first such peer ends the loop.
ToDial(d, peers) ==
    LET fresh == {AddrOf(q) : q \in {x \in peers : IsValidPeer(x)}} \ DOMAIN d.peers
    IN  IF Cardinality(DOMAIN d.peers) >= maxPeers THEN {} ELSE fresh

AddPeers(peers) ==
    LET dialed == ToDial(dm, peers)
    IN  /\ Len(net) + Cardinality(dialed) <= MaxDials
        /\ net' = SpawnDials(net, dialed)
        /\ last' = NoOp
        /\ UNCHANGED <<pm, storage, content, verified, sessVars, wire, extVars>>

\* connectToPeer up to the return of peer.Connect
ConnectToPeer(d, ans) ==
    /\ net[d].state = "dialing"
    /\ LET r == Connect(OurInfoHash, ans)
       IN  net' = [net EXCEPT ![d].ans = ans, ![d].err = r.err, ![d].closed = r.closed,
                              ![d].state = IF r.ok THEN "connected" ELSE "failed"]
    /\ last' = NoOp
    /\ UNCHANGED <<pm, storage, content, verified, sessVars, wire, extVars>>

\* connectToPeer from dm.peers[addr] = peerConn to go dm.handlePeer(peerConn)
RegisterPeer(d) ==
    /\ net[d].state = "connected"
    /\ net' = [net EXCEPT ![d].state = "registered"]
    /\ dm' = [dm EXCEPT !.peers = MapPut(@, net[d].addr, d)]
    /\ sess' = MapPut(sess, d, NewSession(net[d].addr))
    /\ refill' = MapPut(refill, d, [k \in 1..MaxRefills |-> IdleRefill])
    /\ last' = NoOp
    /\ UNCHANGED <<pm, storage, content, verified, pieceCounts, wire, extVars>>

NextPeers ==
    \/ \E peers \in SUBSET TrackerPeers : AddPeers(peers)
    \/ \E d \in DOMAIN net : \E ans \in Answers : ConnectToPeer(d, ans)
    \/ \E d \in DOMAIN net : RegisterPeer(d)
    \/ \E s \in Sessions, ok \in BOOLEAN : HandlePeerStart(s, ok)
    \/ \E s \in Sessions : HandlePeerExit(s)
    \/ \E s \in Sessions : \E k \in Slots(s) : RequestBlocksCheck(s, k)

SpecPeers == InitPeers /\ [][NextPeers]_vars

(***************************************************************************)
(* SpecTracker: one announce cycle of the tracker client.  The torrent is  *)
(* drawn from a menu of announce URLs and announce-list tiers; what each   *)
(* tracker does is drawn when it is contacted.                             *)
(***************************************************************************)
MaxTiers == 2
MaxTierLen == 2
Interval == 900

\* the part of the state the tracker client never touches
InitIdle ==
    /\ pm = NewPieceManager(PMTorrent.pieceLength, Len(PMTorrent.content),
                            HashesOf(PMTorrent.pieceLength, PMTorrent.content))
    /\ storage = InitStorage(Len(PMTorrent.content))
    /\ last = NoOp
    /\ content = PMTorrent.content
    /\ verified = NoneVerified
    /\ InitSessions(0, 0)
    /\ InitNet

TrackerURLs ==
    { [scheme |-> "http", host |-> "a"],
      [scheme |-> "udp", host |-> "b"],
      [scheme |-> "wss", host |-> "c"] }

Tiers == UNION { [1..n -> TrackerURLs] : n \in 1..MaxTierLen }
AnnounceLists == UNION { [1..n -> Tiers] : n \in 0..MaxTiers }
TrackerTorrents == [Announce : TrackerURLs, AnnounceList : AnnounceLists]

\* what the tracker at the other end does: nothing (the request fails or the status
\* is not 200), bytes that are not a bencoded dictionary, or a dictionary. Of the
\* dictionary only the keys the decision rests on: `failure reason` (absent, a byte
\* string, or a value of another type) and `interval`. A UDP tracker answers with
\* an announce response (no failure) or with an error packet (failure).
AbsentKey == [kind |-> "absent", str |-> ""]
TrackerDict(failure, hasInterval) ==
    [kind |-> "dictionary", failure |-> failure, hasInterval |-> hasInterval]
TrackerAnswers ==
    { [kind |-> "unreachable", failure |-> AbsentKey, hasInterval |-> FALSE],
      [kind |-> "garbage", failure |-> AbsentKey, hasInterval |-> FALSE],
      TrackerDict(AbsentKey, TRUE),
      TrackerDict(AbsentKey, FALSE),
      TrackerDict([kind |-> "string", str |-> "torrent not registered"], FALSE),
      TrackerDict([kind |-> "string", str |-> ""], FALSE),
      TrackerDict([kind |-> "integer", str |-> ""], TRUE) }

NilResponse == [nil |-> TRUE, FailureReason |-> "", Interval |-> 0]
TrackerResponse(failureReason, interval) ==
    [nil |-> FALSE, FailureReason |-> failureReason, Interval |-> interval]

RECURSIVE AppendNew(_, _)
AppendNew(trackers, tier) ==
    IF tier = <<>> THEN trackers
    ELSE LET found == \E k \in 1..Len(trackers) : trackers[k] = Head(tier)
         IN  AppendNew(IF found THEN trackers ELSE Append(trackers, Head(tier)),
                       Tail(tier))

RECURSIVE AppendTiers(_, _)
AppendTiers(trackers, tiers) ==
    IF tiers = <<>> THEN trackers
    ELSE AppendTiers(AppendNew(trackers, Head(tiers)), Tail(tiers))

GetAllTrackers(t) == AppendTiers(<<t.Announce>>, t.AnnounceList)

parseTrackerResponse(dict) ==
    IF dict.failure.kind = "string"
    THEN [resp |-> TrackerResponse(dict.failure.str, 0), err |-> Nil]
    ELSE IF ~dict.hasInterval
    THEN [resp |-> NilResponse, err |-> "missing interval in tracker response"]
    ELSE [resp |-> TrackerResponse("", Interval), err |-> Nil]

requestHTTPTracker(ans) ==
    CASE ans.kind = "unreachable" -> [resp |-> NilResponse, err |-> "HTTP request failed"]
      [] ans.kind = "garbage" ->
            [resp |-> NilResponse, err |-> "failed to decode tracker response"]
      [] OTHER -> parseTrackerResponse(ans)

requestUDPTracker(ans) ==
    CASE ans.kind = "unreachable" ->
            [resp |-> NilResponse, err |-> "failed to receive announce response"]
      [] ans.kind = "garbage" \/ ans.failure.kind # "absent" ->
            [resp |-> NilResponse, err |-> "invalid announce response"]
      [] OTHER -> [resp |-> TrackerResponse("", Interval), err |-> Nil]

requestPeers(trackerURL, ans) ==
    CASE trackerURL.scheme \in {"http", "https"} -> requestHTTPTracker(ans)
      [] trackerURL.scheme = "udp" -> requestUDPTracker(ans)
      [] OTHER -> [resp |-> NilResponse, err |-> "unsupported tracker protocol"]

InitTracker ==
    /\ InitIdle
    /\ \E t \in TrackerTorrents :
          calc = [op |-> "GetPeers", t |-> t, trackers |-> GetAllTrackers(t), i |-> 1,
                  asked |-> <<>>, returned |-> FALSE, resp |-> NilResponse, err |-> Nil]
    /\ run = NoRun

\* one turn of the loop of GetPeers: the tracker contacted answers ans
GetPeersTry(ans) ==
    /\ calc.op = "GetPeers"
    /\ ~calc.returned
    /\ calc.i <= Len(calc.trackers)
    /\ LET trackerURL == calc.trackers[calc.i]
           r == requestPeers(trackerURL, ans)
           asked == Append(calc.asked, [url |-> trackerURL, ans |-> ans, r |-> r])
       IN  IF r.err # Nil \/ r.resp.FailureReason # ""
           THEN calc' = [calc EXCEPT !.asked = asked, !.i = @ + 1]
           ELSE calc' = [calc EXCEPT !.asked = asked, !.returned = TRUE, !.resp = r.resp]
    /\ UNCHANGED <<pmVars, sessVars, netVars, run>>

\* GetPeers after the loop: return nil, fmt.Errorf("all trackers failed")
GetPeersFail ==
    /\ calc.op = "GetPeers"
    /\ ~calc.returned
    /\ calc.i > Len(calc.trackers)
    /\ calc' = [calc EXCEPT !.returned = TRUE, !.err = "all trackers failed"]
    /\ UNCHANGED <<pmVars, sessVars, netVars, run>>

NextTracker ==
    \/ \E ans \in TrackerAnswers : GetPeersTry(ans)
    \/ GetPeersFail

SpecTracker == InitTracker /\ [][NextTracker]_vars

(***************************************************************************)
(* SpecRun: the program around the download manager, in both run modes:    *)
(* cmd.Run (mode "cmd") and the TUI Runner (mode "tui").  The announces    *)
(* are steps whose result is what the trackers make of them; the sessions  *)
(* are the sessions of the download manager, dialed by AddPeers.           *)
(***************************************************************************)
MaxAnnounces == 1
MaxRunDials == 1
RunTorrent == [pieceLength |-> BlockSize, content |-> <<1, 0>>]
RunPeers == {[IP |-> "10.0.0.1", Port |-> 6881]}

\* what GetPeers returns: an error (every tracker failed), or a response with peers
\* or without
AnnounceResults ==
    { [err |-> "all trackers failed", Peers |-> {}],
      [err |-> Nil, Peers |-> {}],
      [err |-> Nil, Peers |-> RunPeers] }

\* what the one peer does with a dial: refuses it or completes the handshake
RunAnswers == {[up |-> FALSE, infoHash |-> <<>>], [up |-> TRUE, infoHash |-> OurInfoHash]}

\* what the peer sends once connected: it unchokes, it announces every piece, it
\* sends the blocks
RunMessages(p, bytes) ==
    {Message(MsgUnchoke, <<>>), Message(MsgBitfield, SeedBitfield(p))}
    \cup {Message(MsgPiece, PutUint32(i) \o PutUint32(0)
                            \o GoodData(p, bytes, i, 0, GridLength(p, i, 0))) :
             i \in 0..(p.numPieces - 1)}

NewRun(mode) ==
    [mode      |-> mode,
     main      |-> "announce", \* cmd.Run / Runner.startDownload: "announce" (about to
                               \* send the initial announce), "wait" (cmd.Run blocked
                               \* on ctx.Done), "defer" (returning: the deferred
                               \* Stop is next), "returned"
     err       |-> Nil,        \* what cmd.Run / Runner.Run returns
     exited    |-> FALSE,      \* the process is gone
     signal    |-> FALSE,      \* SIGINT / SIGTERM was delivered
     cancelled |-> FALSE,      \* ctx is cancelled
     shut      |-> "idle",     \* Runner.shutdown: "idle", "cancel", "stop",
                               \* "announce", "done"
     periodic  |-> "none",     \* the periodic announce goroutine: "none", "ticking", "gone"
     monitor   |-> "none",     \* the progress goroutine of cmd.Run / monitorCompletion
     ticks     |-> 0,          \* periodic announces sent
     announces |-> <<>>]       \* history: the events announced, and for those whose
                               \* result the program looks at, the outcome

\* an announce as the tracker client sends it, over HTTP and over UDP alike:
\* Left: t.Info.GetTotalLength()
Announce(event, ok) == [event |-> event, ok |-> ok, left |-> pm.totalLength]

InitRun ==
    /\ pm = NewPieceManager(RunTorrent.pieceLength, Len(RunTorrent.content),
                            HashesOf(RunTorrent.pieceLength, RunTorrent.content))
    /\ storage = InitStorage(Len(RunTorrent.content))
    /\ last = NoOp
    /\ content = RunTorrent.content
    /\ verified = NoneVerified
    /\ InitSessions(0, 0)
    /\ InitNet
    /\ calc = NoCalc
    /\ \E mode \in {"cmd", "tui"} : run = NewRun(mode)

\* the first announce and what follows it up to the point where cmd.Run blocks on
\* ctx.Done and where startDownload returns
RunStarted(r) ==
    /\ ~run.exited
    /\ run.main = "announce"
    /\ LET sent == Append(run.announces, Announce("started", r.err = Nil))
           dialed == ToDial(dm, r.Peers)
       IN  IF r.err # Nil
           THEN /\ run' = [run EXCEPT !.announces = sent, !.main = "defer",
                              !.err = IF run.mode = "cmd"
                                      THEN "failed to get peers from tracker" ELSE Nil]
                /\ UNCHANGED net
           ELSE IF r.Peers = {}
           THEN /\ run' = [run EXCEPT !.announces = sent, !.main = "defer",
                              !.err = IF run.mode = "cmd" THEN "no peers found" ELSE Nil]
                /\ UNCHANGED net
           ELSE /\ run' = [run EXCEPT !.announces = sent,
                              !.main = IF run.mode = "cmd" THEN "wait" ELSE "defer",
                              !.periodic = "ticking", !.monitor = "ticking"]
                /\ net' = SpawnDials(net, dialed)
    /\ last' = NoOp
    /\ UNCHANGED <<pm, storage, content, verified, sessVars, wire, calc>>

\* the signal arrives: cmd.Run's goroutine cancels the context, the Runner's calls
\* shutdown
RunSignal ==
    /\ ~run.exited
    /\ ~run.signal
    /\ run' = IF run.mode = "cmd"
              THEN [run EXCEPT !.signal = TRUE, !.cancelled = TRUE]
              ELSE [run EXCEPT !.signal = TRUE, !.shut = "cancel"]
    /\ UNCHANGED <<pmVars, sessVars, netVars, calc>>

\* a tick of the progress goroutine of cmd.Run
RunProgressTick ==
    /\ ~run.exited
    /\ run.mode = "cmd"
    /\ run.monitor = "ticking"
    /\ run' = IF ~dm.active THEN [run EXCEPT !.monitor = "gone"]
              ELSE IF PieceManager_IsComplete(pm)
              THEN [run EXCEPT !.monitor = "gone", !.cancelled = TRUE]
              ELSE run
    /\ UNCHANGED <<pmVars, sessVars, netVars, calc>>

\* a tick of monitorCompletion
RunMonitorTick ==
    /\ ~run.exited
    /\ run.mode = "tui"
    /\ run.monitor = "ticking"
    /\ run' = IF PieceManager_IsComplete(pm)
              THEN [run EXCEPT !.monitor = "gone",
                       !.announces = Append(@, Announce("completed", TRUE))]
              ELSE run
    /\ UNCHANGED <<pmVars, sessVars, netVars, calc>>

\* case <-ctx.Done(): return, in the progress goroutine and in monitorCompletion
RunMonitorDone ==
    /\ ~run.exited
    /\ run.monitor = "ticking"
    /\ run.cancelled
    /\ run' = [run EXCEPT !.monitor = "gone"]
    /\ UNCHANGED <<pmVars, sessVars, netVars, calc>>

\* a tick of the periodic announce goroutine
RunPeriodicTick(r) ==
    /\ ~run.exited
    /\ run.periodic = "ticking"
    /\ LET dialed == ToDial(dm, r.Peers)
       IN  IF ~dm.active
           THEN /\ run' = [run EXCEPT !.periodic = "gone"]
                /\ UNCHANGED net
           ELSE /\ run.ticks < MaxAnnounces
                /\ Len(net) + Cardinality(dialed) <= MaxRunDials
                /\ run' = [run EXCEPT !.ticks = @ + 1,
                              !.announces = Append(@, Announce("", r.err = Nil))]
                /\ net' = IF r.err = Nil THEN SpawnDials(net, dialed) ELSE net
    /\ last' = NoOp
    /\ UNCHANGED <<pm, storage, content, verified, sessVars, wire, calc>>

\* case <-ctx.Done(): return, in the periodic announce goroutine
RunPeriodicDone ==
    /\ ~run.exited
    /\ run.periodic = "ticking"
    /\ run.cancelled
    /\ run' = [run EXCEPT !.periodic = "gone"]
    /\ UNCHANGED <<pmVars, sessVars, netVars, calc>>

FinalEvent(p) == IF PieceManager_IsComplete(p) THEN "completed" ELSE "stopped"

\* cmd.Run after <-ctx.Done(): the final announce
RunFinalAnnounce ==
    /\ ~run.exited
    /\ run.mode = "cmd"
    /\ run.main = "wait"
    /\ run.cancelled
    /\ run' = [run EXCEPT !.main = "defer",
                  !.announces = Append(@, Announce(FinalEvent(pm), TRUE))]
    /\ UNCHANGED <<pmVars, sessVars, netVars, calc>>

\* defer downloadManager.Stop(): cmd.Run returns and the process ends,
\* startDownload returns and the Runner goes on
RunDeferredStop ==
    /\ ~run.exited
    /\ run.main = "defer"
    /\ dm' = [active |-> FALSE, peers |-> <<>>]
    /\ sess' = ClosePeers(sess, dm)
    /\ run' = [run EXCEPT !.main = "returned", !.exited = (run.mode = "cmd")]
    /\ last' = NoOp
    /\ UNCHANGED <<pm, storage, content, verified, pieceCounts, refill, netVars, calc>>

\* Runner.shutdown: r.cancel()
ShutdownCancel ==
    /\ ~run.exited
    /\ run.shut = "cancel"
    /\ run' = [run EXCEPT !.shut = "stop", !.cancelled = TRUE]
    /\ UNCHANGED <<pmVars, sessVars, netVars, calc>>

\* Runner.shutdown: r.downloadManager.Stop(), r.fileStorage.Close()
ShutdownStop ==
    /\ ~run.exited
    /\ run.shut = "stop"
    /\ dm' = [active |-> FALSE, peers |-> <<>>]
    /\ sess' = ClosePeers(sess, dm)
    /\ run' = [run EXCEPT !.shut = "announce"]
    /\ last' = NoOp
    /\ UNCHANGED <<pm, storage, content, verified, pieceCounts, refill, netVars, calc>>

\* Runner.shutdown: the final announce, then r.program.Quit(): Run returns what
\* program.Run returned
ShutdownAnnounce ==
    /\ ~run.exited
    /\ run.shut = "announce"
    /\ run' = [run EXCEPT !.shut = "done", !.exited = TRUE,
                  !.announces = Append(@, Announce(FinalEvent(pm), TRUE))]
    /\ UNCHANGED <<pmVars, sessVars, netVars, calc>>

\* the user quits the TUI ("q" or ctrl+c): program.Run returns, Run returns
RunQuitKey ==
    /\ ~run.exited
    /\ run.mode = "tui"
    /\ run' = [run EXCEPT !.exited = TRUE]
    /\ UNCHANGED <<pmVars, sessVars, netVars, calc>>

\* the goroutines of the download manager, as long as the process lives
RunSessions ==
    /\ ~run.exited
    /\ \/ \E d \in DOMAIN net : \E ans \in RunAnswers : ConnectToPeer(d, ans)
       \/ \E d \in DOMAIN net : RegisterPeer(d)
       \/ \E s \in Sessions : HandlePeerStart(s, TRUE)
       \/ \E s \in Sessions : \E msg \in RunMessages(pm, content) : HandlePeerMessage(s, msg)
       \/ \E s \in Sessions : HandlePeerUnchoke(s)
       \/ \E s \in Sessions : HandlePeerExit(s)
       \/ \E s \in Sessions : \E k \in Slots(s) : RequestBlocksCheck(s, k)
       \/ \E s \in Sessions : \E k \in Slots(s) : RequestBlocksSelect(s, k)
       \/ \E s \in Sessions : \E k \in Slots(s) : RequestBlocksNext(s, k)

NextRun ==
    \/ \E r \in AnnounceResults : RunStarted(r)
    \/ RunSignal
    \/ RunProgressTick
    \/ RunMonitorTick
    \/ RunMonitorDone
    \/ \E r \in AnnounceResults : RunPeriodicTick(r)
    \/ RunPeriodicDone
    \/ RunFinalAnnounce
    \/ RunDeferredStop
    \/ ShutdownCancel
    \/ ShutdownStop
    \/ ShutdownAnnounce
    \/ RunQuitKey
    \/ RunSessions

SpecRun == InitRun /\ [][NextRun]_vars

(***************************************************************************)
(* Bencode (package bencode).  A byte string is a sequence of byte values; *)
(* a decoded value is a pair of its type and its content: an integer, a   *)
(* byte string, a list of values, or a dictionary (a Go map: a function    *)
(* from keys to values).                                                   *)
(***************************************************************************)
ByteI == 105
ByteL == 108
ByteD == 100
ByteE == 101
ByteColon == 58
BytePlus == 43
ByteMinus == 45
Byte0 == 48
Byte9 == 57
IntBits == 5

BInt(n) == <<"int", n>>
BStr(s) == <<"str", s>>
BList(l) == <<"list", l>>
BDict(f) == <<"dict", f>>
BNil == <<"nil", 0>>
TypeOf(x) == x[1]
ContentOf(x) == x[2]

IsDigit(b) == b >= Byte0 /\ b <= Byte9

Least(S) == CHOOSE x \in S : \A y \in S : x <= y

\* a < b and a <= b of Go strings: byte by byte, the shorter first
RECURSIVE BytesLess(_, _)
BytesLess(a, b) ==
    IF b = <<>> THEN FALSE
    ELSE IF a = <<>> THEN TRUE
    ELSE IF a[1] # b[1] THEN a[1] < b[1]
    ELSE BytesLess(Tail(a), Tail(b))

BytesLE(a, b) == a = b \/ BytesLess(a, b)

RECURSIVE DigitsValue(_)
DigitsValue(ds) ==
    IF ds = <<>> THEN 0
    ELSE 10 * DigitsValue(SubSeq(ds, 1, Len(ds) - 1)) + (ds[Len(ds)] - Byte0)

\* strconv.ParseInt(s, 10, 64): an optional sign, then one or more decimal digits,
\* the value within the range of the integer type
ParseInt(s) ==
    LET signed == s # <<>> /\ s[1] \in {BytePlus, ByteMinus}
        digits == IF signed THEN Tail(s) ELSE s
        neg == signed /\ s[1] = ByteMinus
        n == DigitsValue(digits)
    IN  IF digits = <<>> \/ \E k \in 1..Len(digits) : ~IsDigit(digits[k])
        THEN [n |-> 0, err |-> "invalid syntax"]
        ELSE IF (neg /\ n > Pow2(IntBits - 1)) \/ (~neg /\ n > Pow2(IntBits - 1) - 1)
        THEN [n |-> 0, err |-> "value out of range"]
        ELSE [n |-> IF neg THEN 0 - n ELSE n, err |-> Nil]

RECURSIVE FormatUint(_)
FormatUint(n) ==
    IF n < 10 THEN <<Byte0 + n>>
    ELSE Append(FormatUint(n \div 10), Byte0 + (n % 10))

\* strconv.FormatInt(n, 10), strconv.Itoa(n)
FormatInt(n) == IF n < 0 THEN <<ByteMinus>> \o FormatUint(0 - n) ELSE FormatUint(n)

DecodeError(err) == [val |-> BNil, pos |-> 0, err |-> err]

\* decodeInteger, the 'i' already read: pos is the position of the next byte
decodeInteger(b, pos) ==
    LET ends == {k \in pos..Len(b) : b[k] = ByteE}
    IN  IF ends = {} THEN DecodeError("failed to read integer")
        ELSE LET result == SubSeq(b, pos, Least(ends) - 1)
                 r == ParseInt(result)
             IN  IF result = <<>> THEN DecodeError("empty integer")
                 ELSE IF Len(result) > 1 /\ result[1] = Byte0
                 THEN DecodeError("invalid integer: leading zero")
                 ELSE IF Len(result) = 2 /\ result[1] = ByteMinus /\ result[2] = Byte0
                 THEN DecodeError("invalid integer: negative zero")
                 ELSE IF r.err # Nil THEN DecodeError("failed to parse integer")
                 ELSE [val |-> BInt(r.n), pos |-> Least(ends) + 1, err |-> Nil]

decodeString(b, pos) ==
    LET stops == {k \in pos..Len(b) : ~IsDigit(b[k])}
    IN  IF stops = {} THEN DecodeError("failed to read string length")
        ELSE LET k == Least(stops)
                 lengthBytes == SubSeq(b, pos, k - 1)
                 r == ParseInt(lengthBytes)
             IN  IF b[k] # ByteColon THEN DecodeError("invalid string length character")
                 ELSE IF lengthBytes = <<>> THEN DecodeError("empty string length")
                 ELSE IF r.err # Nil THEN DecodeError("failed to parse string length")
                 ELSE IF k + r.n > Len(b) THEN DecodeError("failed to read string data")
                 ELSE [val |-> BStr(SubSeq(b, k + 1, k + r.n)), pos |-> k + r.n + 1,
                       err |-> Nil]

\* if key <= lastKey && lastKey != ""
KeyOutOfOrder(key, lastKey) == BytesLE(key, lastKey) /\ lastKey # <<>>

RECURSIVE decodeValue(_, _)
RECURSIVE decodeList(_, _, _)
RECURSIVE decodeDictionary(_, _, _, _)

decodeList(b, pos, list) ==
    IF pos > Len(b) THEN DecodeError("failed to read list")
    ELSE IF b[pos] = ByteE THEN [val |-> BList(list), pos |-> pos + 1, err |-> Nil]
    ELSE LET r == decodeValue(b, pos)
         IN  IF r.err # Nil THEN DecodeError("failed to decode list element")
             ELSE decodeList(b, r.pos, Append(list, r.val))

decodeDictionary(b, pos, dict, lastKey) ==
    IF pos > Len(b) THEN DecodeError("failed to read dictionary")
    ELSE IF b[pos] = ByteE THEN [val |-> BDict(dict), pos |-> pos + 1, err |-> Nil]
    ELSE LET k == decodeString(b, pos)
         IN  IF k.err # Nil THEN DecodeError("failed to decode dictionary key")
             ELSE IF KeyOutOfOrder(ContentOf(k.val), lastKey)
             THEN DecodeError("dictionary keys not in sorted order")
             ELSE LET r == decodeValue(b, k.pos)
                  IN  IF r.err # Nil
                      THEN DecodeError("failed to decode dictionary value")
                      ELSE decodeDictionary(b, r.pos,
                                            MapPut(dict, ContentOf(k.val), r.val),
                                            ContentOf(k.val))

decodeValue(b, pos) ==
    IF pos > Len(b) THEN DecodeError("failed to read byte")
    ELSE CASE b[pos] = ByteI -> decodeInteger(b, pos + 1)
           [] b[pos] = ByteL -> decodeList(b, pos + 1, <<>>)
           [] b[pos] = ByteD -> decodeDictionary(b, pos + 1, <<>>, <<>>)
           [] IsDigit(b[pos]) -> decodeString(b, pos)
           [] OTHER -> DecodeError("invalid bencode data")

Decode(b) == decodeValue(b, 1)

encodeInteger(n) == <<ByteI>> \o FormatInt(n) \o <<ByteE>>

encodeString(s) == FormatInt(Len(s)) \o <<ByteColon>> \o s

\* the keys of the map in descending byte order
RECURSIVE SortKeys_Descending(_)
SortKeys_Descending(keys) ==
    IF keys = {} THEN <<>>
    ELSE LET first == CHOOSE k \in keys : \A other \in keys : BytesLE(other, k)
         IN  <<first>> \o SortKeys_Descending(keys \ {first})

\* sort.Slice(keys, ...): the keys of the map in ascending byte order
RECURSIVE SortKeys(_)
SortKeys(keys) ==
    IF keys = {} THEN <<>>
    ELSE LET first == CHOOSE k \in keys : \A other \in keys : BytesLE(k, other)
         IN  <<first>> \o SortKeys(keys \ {first})

RECURSIVE encodeValue(_)
RECURSIVE encodeList(_)
RECURSIVE encodeDictionary(_, _)

encodeList(list) ==
    IF list = <<>> THEN <<>> ELSE encodeValue(Head(list)) \o encodeList(Tail(list))

encodeDictionary(dict, keys) ==
    IF keys = <<>> THEN <<>>
    ELSE encodeString(Head(keys)) \o encodeValue(dict[Head(keys)])
         \o encodeDictionary(dict, Tail(keys))

encodeValue(x) ==
    CASE TypeOf(x) = "int" -> encodeInteger(ContentOf(x))
      [] TypeOf(x) = "str" -> encodeString(ContentOf(x))
      [] TypeOf(x) = "list" -> <<ByteL>> \o encodeList(ContentOf(x)) \o <<ByteE>>
      [] TypeOf(x) = "dict" ->
            <<ByteD>> \o encodeDictionary(ContentOf(x), SortKeys(DOMAIN ContentOf(x)))
            \o <<ByteE>>

Encode(x) == encodeValue(x)

(***************************************************************************)
(* The torrent file parser (internal/torrent/torrent.go)                   *)
(***************************************************************************)
HashSize == 20

\* the keys the parser looks up, as bytes
KeyAnnounce == <<97, 110, 110, 111, 117, 110, 99, 101>>
KeyInfo == <<105, 110, 102, 111>>
KeyName == <<110, 97, 109, 101>>
KeyPieceLength == <<112, 105, 101, 99, 101, 32, 108, 101, 110, 103, 116, 104>>
KeyPieces == <<112, 105, 101, 99, 101, 115>>
KeyLength == <<108, 101, 110, 103, 116, 104>>
KeyFiles == <<102, 105, 108, 101, 115>>
KeyPath == <<112, 97, 116, 104>>

\* dict[key], nil when the key is absent
Lookup(dict, key) == IF key \in DOMAIN dict THEN dict[key] ELSE BNil

\* value.(T) of a type assertion: ok
IsType(x, t) == TypeOf(x) = t

NoInfo == [Name |-> <<>>, PieceLength |-> 0, Pieces |-> <<>>, Length |-> 0, Files |-> <<>>]

\* the error of the first path component that is no byte string
PathError(path) ==
    IF \E k \in 1..Len(path) : ~IsType(path[k], "str") THEN "invalid path component"
    ELSE IF Len(path) = 0 THEN "empty file path"
    ELSE Nil

\* the body of the loop over the files of a multi-file torrent
FileError(file) ==
    IF ~IsType(file, "dict") THEN "invalid file dictionary"
    ELSE IF ~IsType(Lookup(ContentOf(file), KeyLength), "int")
    THEN "missing or invalid file length"
    ELSE IF ~IsType(Lookup(ContentOf(file), KeyPath), "list")
    THEN "missing or invalid file path"
    ELSE PathError(ContentOf(Lookup(ContentOf(file), KeyPath)))

FileInfoOf(file) ==
    [Length |-> ContentOf(Lookup(ContentOf(file), KeyLength)),
     Path |-> [k \in 1..Len(ContentOf(Lookup(ContentOf(file), KeyPath))) |->
                  ContentOf(ContentOf(Lookup(ContentOf(file), KeyPath))[k])]]

parseInfo(infoDict) ==
    LET name == Lookup(infoDict, KeyName)
        pieceLength == Lookup(infoDict, KeyPieceLength)
        pieces == Lookup(infoDict, KeyPieces)
        length == Lookup(infoDict, KeyLength)
        files == Lookup(infoDict, KeyFiles)
        failed(err) == [err |-> err, info |-> NoInfo]
    IN  IF ~IsType(name, "str") THEN failed("missing or invalid name field")
        ELSE IF ~IsType(pieceLength, "int")
        THEN failed("missing or invalid piece length field")
        ELSE IF ~IsType(pieces, "str") THEN failed("missing or invalid pieces field")
        ELSE IF Len(ContentOf(pieces)) % HashSize # 0 THEN failed("invalid pieces length")
        ELSE LET info == [NoInfo EXCEPT !.Name = ContentOf(name),
                                        !.PieceLength = ContentOf(pieceLength),
                                        !.Pieces = ContentOf(pieces)]
             IN  IF IsType(length, "int")
                 THEN [err |-> Nil, info |-> [info EXCEPT !.Length = ContentOf(length)]]
                 ELSE IF IsType(files, "list")
                 THEN LET bad == {k \in 1..Len(ContentOf(files)) :
                                      FileError(ContentOf(files)[k]) # Nil}
                      IN  IF bad # {}
                          THEN failed(FileError(ContentOf(files)[Least(bad)]))
                          ELSE [err |-> Nil,
                                info |-> [info EXCEPT !.Files =
                                    [k \in 1..Len(ContentOf(files)) |->
                                        FileInfoOf(ContentOf(files)[k])]]]
                 ELSE failed("missing length (single file) or files (multi file) field")

\* the SHA-1 of the re-encoded info dictionary
calculateInfoHash(infoDict) == Sha1(Encode(BDict(infoDict)))

NoTorrent == [err |-> "not parsed", Announce |-> <<>>, Info |-> NoInfo, InfoHash |-> Sha1(<<>>)]

ParseTorrentFile(b) ==
    LET data == Decode(b)
        failed(err) == [NoTorrent EXCEPT !.err = err]
    IN  IF data.err # Nil THEN failed("failed to decode torrent file")
        ELSE IF ~IsType(data.val, "dict") THEN failed("torrent file root is not a dictionary")
        ELSE LET dict == ContentOf(data.val)
             IN  IF ~IsType(Lookup(dict, KeyAnnounce), "str")
                 THEN failed("missing or invalid announce field")
                 ELSE IF KeyInfo \notin DOMAIN dict THEN failed("missing info dictionary")
                 ELSE IF ~IsType(dict[KeyInfo], "dict") THEN failed("info is not a dictionary")
                 ELSE LET infoDict == ContentOf(dict[KeyInfo])
                          parsed == parseInfo(infoDict)
                      IN  IF parsed.err # Nil
                          THEN failed("failed to parse info dictionary")
                          ELSE [err |-> Nil,
                                Announce |-> ContentOf(Lookup(dict, KeyAnnounce)),
                                Info |-> parsed.info,
                                InfoHash |-> calculateInfoHash(infoDict)]

(***************************************************************************)
(* SpecBencode: the codec applied to inputs drawn from bounded sets:       *)
(* integer tokens of every spelling, dictionaries with their keys in every *)
(* order, values to encode, and torrent files.                             *)
(***************************************************************************)
MaxBodyLen == 3
MaxKeys == 3
MaxListLen == 2
ByteA == 97

IntAlphabet == {BytePlus, ByteMinus, ByteA} \cup {Byte0 + d : d \in {0, 1, 5, 6, 7}}
IntBodies == UNION {[1..n -> IntAlphabet] : n \in 0..MaxBodyLen}
IntegerToken(body) == <<ByteI>> \o body \o <<ByteE>>

DictKeys == {<<>>, <<ByteA>>, <<ByteA, ByteA, ByteA>>, <<122, 122, 122>>}
KeyLists == UNION {[1..n -> DictKeys] : n \in 0..MaxKeys}

\* the entries of a dictionary written in the order of keys, the k-th value being k
RECURSIVE EntriesFrom(_, _)
EntriesFrom(keys, k) ==
    IF k > Len(keys) THEN <<>>
    ELSE encodeString(keys[k]) \o encodeInteger(k) \o EntriesFrom(keys, k + 1)

DictionaryToken(keys) == <<ByteD>> \o EntriesFrom(keys, 1) \o <<ByteE>>

\* values of the four kinds: integers over the whole range, byte strings holding
\* bytes the format gives a meaning to and one whose length takes two digits,
\* lists and dictionaries holding values of every kind
IntValues == {BInt(n) : n \in {0 - Pow2(IntBits - 1), -1, 0, 9, 10, Pow2(IntBits - 1) - 1}}
StrValues ==
    {BStr(s) : s \in {<<>>, <<ByteE>>, <<Byte0, ByteColon>>, [k \in 1..10 |-> ByteA]}}
Atoms == IntValues \cup StrValues
ListValues == {BList(l) : l \in UNION {[1..n -> Atoms] : n \in 0..MaxListLen}}
Members ==
    {BInt(-1), BStr(<<ByteE>>), BList(<<>>), BList(<<BInt(10), BStr(<<>>)>>), BDict(<<>>),
     BDict(MapPut(<<>>, <<ByteA>>, BInt(0)))}
DictValues == {BDict(f) : f \in UNION {[keys -> Members] : keys \in SUBSET DictKeys}}
NestedValues == {BList(<<d, a>>) : d \in {BDict(MapPut(<<>>, <<>>, m)) : m \in Members},
                                   a \in {BInt(0), BStr(<<ByteA>>)}}

\* torrent files in every spelling the decoder may meet: string lengths with a
\* leading zero, integers with a sign, the zero-length key once or twice, fields
\* missing, of the wrong type or out of order; single-file and multi-file
Cat(A, B) == {a \o b : a \in A, b \in B}
Padded(s) == <<Byte0>> \o encodeString(s)
Spellings(s) == {encodeString(s), Padded(s)}
SignedInteger(n) == <<ByteI, BytePlus>> \o FormatInt(n) \o <<ByteE>>
WrongType == {encodeString(<<ByteA>>)}

EmptyKeyEntries ==
    {<<>>, encodeString(<<>>) \o encodeInteger(0),
     encodeString(<<>>) \o encodeInteger(0) \o encodeString(<<>>) \o encodeInteger(1)}
\* the path component "."
DotComponent == <<46>>
\* path lists: empty, of an integer, of "a", of an empty component, of ".", and of
\* "a" followed by an empty component
PathLists ==
    Cat(Cat({<<ByteL>>},
            {<<>>, encodeInteger(1), encodeString(<<>>), encodeString(DotComponent),
             encodeString(<<ByteA>>) \o encodeString(<<>>)}
            \cup Spellings(<<ByteA>>)), {<<ByteE>>})
FileDicts ==
    Cat(Cat(Cat(Cat({<<ByteD>> \o encodeString(KeyLength)},
                    {encodeInteger(1), SignedInteger(1)}),
                {encodeString(KeyPath)}), PathLists), {<<ByteE>>})
FilesEntries ==
    Cat({encodeString(KeyFiles)},
        {<<ByteL, ByteE>>} \cup Cat(Cat({<<ByteL>>}, FileDicts), {<<ByteE>>}))
LengthEntries ==
    Cat(Spellings(KeyLength), {encodeInteger(5), SignedInteger(5)} \cup WrongType)
ModeEntries == {<<>>} \cup LengthEntries \cup FilesEntries
NameEntries ==
    {<<>>} \cup Cat(Spellings(KeyName), Spellings(<<ByteA>>))
           \cup {encodeString(KeyName) \o encodeInteger(1)}
PieceLengthEntries ==
    Cat({encodeString(KeyPieceLength)},
        {encodeInteger(2), SignedInteger(2), <<ByteI, Byte0, Byte0 + 2, ByteE>>} \cup WrongType)
PiecesEntries ==
    Cat({encodeString(KeyPieces)},
        {encodeString(<<>>), Padded(<<>>), encodeString(<<ByteA, ByteA, ByteA>>)})
InfoTokens ==
    Cat(Cat(Cat(Cat(Cat(Cat({<<ByteD>>}, EmptyKeyEntries), ModeEntries), NameEntries),
                PieceLengthEntries), PiecesEntries), {<<ByteE>>})

AnnounceEntries == {<<>>} \cup Cat(Spellings(KeyAnnounce), {encodeString(<<ByteA>>)})

\* the file: the announce entry and the info entry, in this order or swapped
TorrentBytes(announce, info, swapped) ==
    <<ByteD>> \o (IF swapped THEN encodeString(KeyInfo) \o info \o announce
                  ELSE announce \o encodeString(KeyInfo) \o info) \o <<ByteE>>

NoDecode == [val |-> BNil, pos |-> 0, err |-> "not decoded"]

NewCodec(src, x, b, stage) ==
    [op |-> "bencode", src |-> src, x |-> x, b |-> b, stage |-> stage,
     r |-> NoDecode, e |-> <<>>, t |-> NoTorrent]

Source(kind, body, keys) == [kind |-> kind, body |-> body, keys |-> keys]

InitBencode ==
    /\ InitIdle
    /\ run = NoRun
    /\ \/ \E body \in IntBodies :
             calc = NewCodec(Source("integer", body, <<>>), BNil, IntegerToken(body), "bytes")
       \/ \E keys \in KeyLists :
             calc = NewCodec(Source("dictionary", <<>>, keys), BNil, DictionaryToken(keys),
                             "bytes")
       \/ \E x \in Atoms \cup ListValues \cup DictValues \cup NestedValues :
             calc = NewCodec(Source("value", <<>>, <<>>), x, <<>>, "value")
       \/ \E announce \in AnnounceEntries, info \in InfoTokens, swapped \in BOOLEAN :
             calc = NewCodec(Source("torrent", info, <<>>), BNil,
                             TorrentBytes(announce, info, swapped), "file")

\* Encode of the value drawn
EncodeInput ==
    /\ calc.op = "bencode"
    /\ calc.stage = "value"
    /\ calc' = [calc EXCEPT !.b = Encode(calc.x), !.stage = "bytes"]
    /\ UNCHANGED <<pmVars, sessVars, netVars, run>>

\* Decode of the bytes
DecodeInput ==
    /\ calc.op = "bencode"
    /\ calc.stage = "bytes"
    /\ calc' = [calc EXCEPT !.r = Decode(calc.b), !.stage = "decoded"]
    /\ UNCHANGED <<pmVars, sessVars, netVars, run>>

\* Encode of the decoded value
EncodeDecoded ==
    /\ calc.op = "bencode"
    /\ calc.stage = "decoded"
    /\ calc.r.err = Nil
    /\ calc' = [calc EXCEPT !.e = Encode(calc.r.val), !.stage = "reencoded"]
    /\ UNCHANGED <<pmVars, sessVars, netVars, run>>

\* ParseTorrentFile of the file
ParseTorrent ==
    /\ calc.op = "bencode"
    /\ calc.stage = "file"
    /\ calc' = [calc EXCEPT !.t = ParseTorrentFile(calc.b), !.stage = "parsed"]
    /\ UNCHANGED <<pmVars, sessVars, netVars, run>>

NextBencode ==
    \/ ParseTorrent
    \/ EncodeInput
    \/ DecodeInput
    \/ EncodeDecoded

SpecBencode == InitBencode /\ [][NextBencode]_vars

(***************************************************************************)
(* SpecBitfield: SetPiece and ClearPiece called on bitfields of every      *)
(* size up to MaxPieces, fresh or built from the bytes of a peer, with     *)
(* indices inside and outside the range.                                   *)
(***************************************************************************)
MaxPieces == 9

PieceIndices == -1..(MaxPieces + 1)

\* bytes a bitfield may be built from: too short, exact or too long, with
\* spare bits set
BitfieldBytes == UNION {[1..n -> {0, 165, 255}] : n \in 0..2}

NewBitfieldCall(bf) ==
    [op |-> "bitfield", bf |-> bf, before |-> bf, call |-> "none", i |-> 0, err |-> Nil]

InitBitfield ==
    /\ InitIdle
    /\ run = NoRun
    /\ \E n \in 0..MaxPieces :
          \/ calc = NewBitfieldCall(NewBitfield(n))
          \/ \E data \in BitfieldBytes : calc = NewBitfieldCall(NewBitfieldFromBytes(data, n))

SetPiece(i) ==
    /\ calc.op = "bitfield"
    /\ LET r == Bitfield_SetPiece(calc.bf, i)
       IN  calc' = [calc EXCEPT !.bf = r.bf, !.before = calc.bf, !.call = "set", !.i = i,
                                !.err = r.err]
    /\ UNCHANGED <<pmVars, sessVars, netVars, run>>

ClearPiece(i) ==
    /\ calc.op = "bitfield"
    /\ LET r == Bitfield_ClearPiece(calc.bf, i)
       IN  calc' = [calc EXCEPT !.bf = r.bf, !.before = calc.bf, !.call = "clear", !.i = i,
                                !.err = r.err]
    /\ UNCHANGED <<pmVars, sessVars, netVars, run>>

NextBitfield ==
    \/ \E i \in PieceIndices : SetPiece(i)
    \/ \E i \in PieceIndices : ClearPiece(i)

SpecBitfield == InitBitfield /\ [][NextBitfield]_vars

(***************************************************************************)
(* FileStorage (internal/storage/storage.go): the files of the torrent one *)
(* after the other form the virtual address space; readAt and writeAt walk *)
(* the files the range touches.                                            *)
(***************************************************************************)
RECURSIVE SumLengths(_, _)
SumLengths(lengths, k) == IF k < 1 THEN 0 ELSE lengths[k] + SumLengths(lengths, k - 1)

\* setupFiles giving every file the offset 0
NewFileStorage_NoOffsets(lengths) ==
    [fileInfos |-> [k \in 1..Len(lengths) |-> [Length |-> lengths[k], Offset |-> 0]],
     files |-> [k \in 1..Len(lengths) |-> [b \in 1..lengths[k] |-> 0]],
     totalLength |-> SumLengths(lengths, Len(lengths))]

\* setupFiles: each file at the offset where the one before ends, opened and
\* truncated to its length
NewFileStorage(lengths) ==
    [fileInfos |-> [k \in 1..Len(lengths) |->
                       [Length |-> lengths[k], Offset |-> SumLengths(lengths, k - 1)]],
     files |-> [k \in 1..Len(lengths) |-> [b \in 1..lengths[k] |-> 0]],
     totalLength |-> SumLengths(lengths, Len(lengths))]

\* os.File.WriteAt: the bytes of data over the file from off on
FileWriteAt(file, data, off) ==
    [b \in 1..(IF off + Len(data) > Len(file) THEN off + Len(data) ELSE Len(file)) |->
        IF b > off /\ b <= off + Len(data) THEN data[b - off]
        ELSE IF b <= Len(file) THEN file[b] ELSE 0]

\* os.File.ReadAt: n bytes of the file from off on
FileReadAt(file, n, off) == SubSeq(file, off + 1, off + n)

\* the loop of writeAt from file i on
RECURSIVE writeAtFrom(_, _, _, _, _)
writeAtFrom(fs, data, offset, i, totalWritten) ==
    IF i > Len(fs.fileInfos) THEN [fs |-> fs, n |-> totalWritten, err |-> Nil]
    ELSE LET fileInfo == fs.fileInfos[i]
             remaining == Len(data) - totalWritten
         IN  IF offset >= fileInfo.Offset + fileInfo.Length
             THEN writeAtFrom(fs, data, offset, i + 1, totalWritten)
             ELSE IF offset < fileInfo.Offset
             THEN [fs |-> fs, n |-> totalWritten, err |-> Nil]
             ELSE LET fileOffset == offset - fileInfo.Offset
                      maxWrite == Min(fileInfo.Length - fileOffset, remaining)
                      written == [fs EXCEPT !.files[i] =
                                     FileWriteAt(@, SubSeq(data, totalWritten + 1,
                                                           totalWritten + maxWrite),
                                                 fileOffset)]
                  IN  IF remaining - maxWrite = 0
                      THEN [fs |-> written, n |-> totalWritten + maxWrite, err |-> Nil]
                      ELSE writeAtFrom(written, data, offset + maxWrite, i + 1,
                                       totalWritten + maxWrite)

writeAt(fs, data, offset) ==
    IF offset < 0 \/ offset >= fs.totalLength
    THEN [fs |-> fs, n |-> 0, err |-> "offset out of range"]
    ELSE writeAtFrom(fs, data, offset, 1, 0)

\* the loop of readAt from file i on; data is the buffer of the caller
RECURSIVE readAtFrom(_, _, _, _, _)
readAtFrom(fs, data, offset, i, totalRead) ==
    IF i > Len(fs.fileInfos) THEN [data |-> data, n |-> totalRead, err |-> Nil]
    ELSE LET fileInfo == fs.fileInfos[i]
             remaining == Len(data) - totalRead
         IN  IF offset >= fileInfo.Offset + fileInfo.Length
             THEN readAtFrom(fs, data, offset, i + 1, totalRead)
             ELSE IF offset < fileInfo.Offset
             THEN [data |-> data, n |-> totalRead, err |-> Nil]
             ELSE LET fileOffset == offset - fileInfo.Offset
                      maxRead == Min(fileInfo.Length - fileOffset, remaining)
                      got == FileReadAt(fs.files[i], maxRead, fileOffset)
                      filled == [b \in 1..Len(data) |->
                                    IF b > totalRead /\ b <= totalRead + maxRead
                                    THEN got[b - totalRead] ELSE data[b]]
                  IN  IF remaining - maxRead = 0
                      THEN [data |-> filled, n |-> totalRead + maxRead, err |-> Nil]
                      ELSE readAtFrom(fs, filled, offset + maxRead, i + 1,
                                      totalRead + maxRead)

readAt(fs, length, offset) ==
    LET data == [b \in 1..length |-> 0]
    IN  IF offset < 0 \/ offset >= fs.totalLength
        THEN [data |-> data, n |-> 0, err |-> "offset out of range"]
        ELSE readAtFrom(fs, data, offset, 1, 0)

(***************************************************************************)
(* SpecStorage: writeAt and readAt on every layout of up to MaxFiles files *)
(* of up to MaxFileLen bytes, zero-length files included.                  *)
(***************************************************************************)
MaxFiles == 3
MaxFileLen == 2
MaxWrites == 2
MaxRange == 4

Layouts == UNION {[1..n -> 0..MaxFileLen] : n \in 1..MaxFiles}

\* the bytes of the w-th write: no two bytes written are alike
WriteData(w, length) == [b \in 1..length |-> 10 * w + b]

NoCall == [kind |-> "none", offset |-> 0, length |-> 0, data |-> <<>>, n |-> 0, err |-> Nil]

InitFileStorage ==
    /\ InitIdle
    /\ run = NoRun
    /\ \E lengths \in Layouts :
          calc = [op |-> "storage", fs |-> NewFileStorage(lengths),
                  virtual |-> InitStorage(SumLengths(lengths, Len(lengths))),
                  writes |-> 0, call |-> NoCall]

\* the bytes of the virtual address space after the write of data at offset
Overlay(virtual, data, offset) ==
    [v \in 1..Len(virtual) |->
        IF v > offset /\ v <= offset + Len(data) THEN data[v - offset] ELSE virtual[v]]

WriteRange(offset, length) ==
    /\ calc.op = "storage"
    /\ calc.writes < MaxWrites
    /\ LET data == WriteData(calc.writes + 1, length)
           r == writeAt(calc.fs, data, offset)
       IN  calc' = [calc EXCEPT !.fs = r.fs, !.writes = @ + 1,
                        !.virtual = IF r.err = Nil THEN Overlay(@, data, offset) ELSE @,
                        !.call = [kind |-> "write", offset |-> offset, length |-> length,
                                  data |-> data, n |-> r.n, err |-> r.err]]
    /\ UNCHANGED <<pmVars, sessVars, netVars, run>>

ReadRange(offset, length) ==
    /\ calc.op = "storage"
    /\ LET r == readAt(calc.fs, length, offset)
       IN  calc' = [calc EXCEPT !.call = [kind |-> "read", offset |-> offset,
                                          length |-> length, data |-> r.data, n |-> r.n,
                                          err |-> r.err]]
    /\ UNCHANGED <<pmVars, sessVars, netVars, run>>

NextStorage ==
    \/ \E offset \in 0..calc.fs.totalLength, length \in 0..MaxRange :
          WriteRange(offset, length)
    \/ \E offset \in 0..calc.fs.totalLength, length \in 0..MaxRange :
          ReadRange(offset, length)

SpecStorage == InitFileStorage /\ [][NextStorage]_vars

(***************************************************************************)
(* SpecStrategy: the rarest-first strategy on its own: bitfields of peers  *)
(* are observed, and SelectPiece is asked with every candidate list and    *)
(* every peer bitfield.                                                    *)
(***************************************************************************)
StrategyPieces == 3
MaxObserved == 3

\* the bitfield of StrategyPieces pieces that holds the pieces of have
BitfieldOf(have) ==
    [data |-> <<SumLengths([k \in 1..StrategyPieces |->
                               IF (k - 1) \in have THEN BitMask(k - 1) ELSE 0],
                           StrategyPieces)>>,
     size |-> StrategyPieces]

NoSelect == [called |-> FALSE, availablePieces |-> {}, peer |-> {}, index |-> -1, err |-> Nil]

InitStrategy ==
    /\ InitIdle
    /\ run = NoRun
    /\ calc = [op |-> "strategy", observed |-> 0,
               seen |-> [i \in 0..(StrategyPieces - 1) |-> 0], select |-> NoSelect]

ObservePeerBitfield(have) ==
    /\ calc.op = "strategy"
    /\ calc.observed < MaxObserved
    /\ pieceCounts' = UpdatePeerBitfield(pieceCounts, BitfieldOf(have))
    /\ calc' = [calc EXCEPT !.observed = @ + 1,
                            !.seen = [i \in DOMAIN @ |-> IF i \in have THEN @[i] + 1 ELSE @[i]],
                            !.select = NoSelect]
    /\ UNCHANGED <<pmVars, dm, sess, refill, netVars, run>>

\* SelectPiece finds a piece
SelectFound(availablePieces, have) ==
    /\ calc.op = "strategy"
    /\ \E index \in SelectPiece(pieceCounts, availablePieces, BitfieldOf(have)) :
          calc' = [calc EXCEPT !.select = [called |-> TRUE, availablePieces |-> availablePieces,
                                           peer |-> have, index |-> index, err |-> Nil]]
    /\ UNCHANGED <<pmVars, sessVars, netVars, run>>

\* SelectPiece returns -1 and an error
SelectNone(availablePieces, have) ==
    /\ calc.op = "strategy"
    /\ SelectPiece(pieceCounts, availablePieces, BitfieldOf(have)) = {}
    /\ calc' = [calc EXCEPT !.select = [called |-> TRUE, availablePieces |-> availablePieces,
                                        peer |-> have, index |-> -1,
                                        err |-> "no piece to select"]]
    /\ UNCHANGED <<pmVars, sessVars, netVars, run>>

NextStrategy ==
    \/ \E have \in SUBSET (0..(StrategyPieces - 1)) : ObservePeerBitfield(have)
    \/ \E availablePieces \in SUBSET (0..StrategyPieces),
          have \in SUBSET (0..(StrategyPieces - 1)) : SelectFound(availablePieces, have)
    \/ \E availablePieces \in SUBSET (0..StrategyPieces),
          have \in SUBSET (0..(StrategyPieces - 1)) : SelectNone(availablePieces, have)

SpecStrategy == InitStrategy /\ [][NextStrategy]_vars

(***************************************************************************)
(* SpecLive: Spec with a peer that sends nothing more once it has sent an  *)
(* unchoke, and with the goroutines of the download manager scheduled      *)
(* fairly: a goroutine that can take its next step takes it eventually     *)
(* (the Go scheduler runs every runnable goroutine, and the steps of       *)
(* requestBlocks and the rest of handleMessage wait for nothing but the    *)
(* mutexes). Nothing makes the peer send, the caller stop the download     *)
(* manager or the connection fail.                                         *)
(***************************************************************************)
\* a message of a peer that has not sent an unchoke yet
MessageBeforeUnchoke(s, msg) ==
    /\ ~sess[s].gotUnchoke
    /\ HandlePeerMessage(s, msg)

Scheduled ==
    \/ \E s \in Sessions : HandlePeerUnchoke(s)
    \/ \E s \in Sessions : \E k \in Slots(s) : RequestBlocksCheck(s, k)
    \/ \E s \in Sessions : \E k \in Slots(s) : RequestBlocksSelect(s, k)
    \/ \E s \in Sessions : \E k \in Slots(s) : RequestBlocksNext(s, k)

NextLive ==
    \/ \E s \in Sessions, ok \in BOOLEAN : HandlePeerStart(s, ok)
    \/ \E s \in Sessions : \E msg \in WireMessages(pm, content) : MessageBeforeUnchoke(s, msg)
    \/ \E s \in Sessions : HandlePeerExit(s)
    \/ \E s \in Sessions : KeepAlive(s)
    \/ Stop
    \/ Scheduled

SpecLive == Init /\ [][NextLive]_vars /\ WF_vars(Scheduled)

(***************************************************************************)
(* SpecUDP: requestUDPTracker, datagram by datagram. The tracker answers   *)
(* each of the two requests with a datagram of its choice, or not at all.  *)
(***************************************************************************)
\* connectResp := make([]byte, 16), announceResp := make([]byte, 1024), the header of
\* an announce response and a compact peer entry
ConnectRespLen == 16
AnnounceBufLen == 1024
AnnounceHeaderLen == 20
PeerEntryLen == 6
ActionConnect == 0
ActionAnnounce == 1
\* the actions a tracker may answer with: connect, announce, error
TrackerActions == {ActionConnect, ActionAnnounce, 3}

\* the transaction ids rand.Read may produce (the second may repeat the first)
MaxTransaction == 2
TransactionIDs == {PutUint32(n) : n \in 1..MaxTransaction}
UDPEvents == {"started", "completed", "stopped", ""}

\* the first n bytes of seq, zero where seq has none
Pad(seq, n) == [k \in 1..n |-> IF k <= Len(seq) THEN seq[k] ELSE 0]

\* a datagram of n bytes that starts with an action and a transaction id; the one
\* byte set after them tells the bytes of a tracker from a zeroed buffer
Datagram(action, tid, n) ==
    [lost |-> FALSE, bytes |-> Pad(PutUint32(action) \o tid \o <<0, 0, 0, 7>>, n)]
NoDatagram == [lost |-> TRUE, bytes |-> <<>>]

\* lengths of the datagrams of the search: short, exact, one byte too long (connect);
\* short, no peer, one peer, a torn peer entry, two peers, more than the buffer
ConnectLengths == {ConnectRespLen - 4, ConnectRespLen, ConnectRespLen + 1}
AnnounceLengths ==
    {AnnounceHeaderLen - 4, AnnounceHeaderLen, AnnounceHeaderLen + PeerEntryLen,
     AnnounceHeaderLen + PeerEntryLen + 1, AnnounceHeaderLen + 2 * PeerEntryLen,
     AnnounceHeaderLen + 168 * PeerEntryLen}
ConnectDatagrams ==
    {NoDatagram} \cup {Datagram(a, t, n) : a \in TrackerActions,
                                           t \in TransactionIDs, n \in ConnectLengths}
AnnounceDatagrams ==
    {NoDatagram} \cup {Datagram(a, t, n) : a \in TrackerActions,
                                           t \in TransactionIDs, n \in AnnounceLengths}

\* conn.Read(buf) on a UDP socket: the deadline passes, the datagram fits, or it is
\* longer than buf; then the excess is dropped without an error (recvfrom on the
\* Unix builds) or the read reports the oversize (WSAEMSGSIZE on the Windows build)
UDPRead(d, size) ==
    IF d.lost THEN {[n |-> 0, buf |-> Pad(<<>>, size), err |-> "i/o timeout"]}
    ELSE IF Len(d.bytes) <= size
    THEN {[n |-> Len(d.bytes), buf |-> Pad(d.bytes, size), err |-> Nil]}
    ELSE {[n |-> size, buf |-> Pad(d.bytes, size), err |-> Nil],
          [n |-> size, buf |-> Pad(d.bytes, size), err |-> "message too long"]}

NoPeers == <<>>
UDPFailure(err) == [err |-> err, ok |-> FALSE, peers |-> NoPeers, connectionID |-> <<>>]

\* requestUDPTracker from the connect response read to connectionID
udpConnect(transactionID, read) ==
    IF read.err # Nil THEN UDPFailure("failed to receive connect response")
    ELSE IF read.n # ConnectRespLen THEN UDPFailure("invalid connect response length")
    ELSE IF Uint32At(read.buf, 0) # ActionConnect \/ SubSeq(read.buf, 5, 8) # transactionID
    THEN UDPFailure("invalid connect response")
    ELSE [err |-> Nil, ok |-> FALSE, peers |-> NoPeers,
          connectionID |-> SubSeq(read.buf, 9, 16)]

\* the peers of the compact peer data announceResp[20:n]
ParsePeers(buf, n) ==
    [k \in 1..((n - AnnounceHeaderLen) \div PeerEntryLen) |->
        LET at == AnnounceHeaderLen + (k - 1) * PeerEntryLen
        IN  [IP |-> SubSeq(buf, at + 1, at + 4),
             Port |-> buf[at + 5] * 256 + buf[at + 6]]]

\* an announce that accepts a response whatever its transaction id
udpAnnounce_AnyTransaction(transactionID, read) ==
    IF read.err # Nil THEN UDPFailure("failed to receive announce response")
    ELSE IF read.n < AnnounceHeaderLen THEN UDPFailure("invalid announce response length")
    ELSE IF Uint32At(read.buf, 0) # ActionAnnounce
    THEN UDPFailure("invalid announce response")
    ELSE IF (read.n - AnnounceHeaderLen) % PeerEntryLen # 0
    THEN UDPFailure("invalid peer data length")
    ELSE [err |-> Nil, ok |-> TRUE, peers |-> ParsePeers(read.buf, read.n),
          connectionID |-> <<>>]

\* requestUDPTracker from the announce response read to the return
udpAnnounce(transactionID, read) ==
    IF read.err # Nil THEN UDPFailure("failed to receive announce response")
    ELSE IF read.n < AnnounceHeaderLen THEN UDPFailure("invalid announce response length")
    ELSE IF Uint32At(read.buf, 0) # ActionAnnounce \/ SubSeq(read.buf, 5, 8) # transactionID
    THEN UDPFailure("invalid announce response")
    ELSE IF (read.n - AnnounceHeaderLen) % PeerEntryLen # 0
    THEN UDPFailure("invalid peer data length")
    ELSE [err |-> Nil, ok |-> TRUE, peers |-> ParsePeers(read.buf, read.n),
          connectionID |-> <<>>]

\* the connect request is about to be written, with the transaction id drawn
InitUDP ==
    /\ InitIdle
    /\ \E tid \in TransactionIDs, event \in UDPEvents :
          calc = [op |-> "udp", stage |-> "connect", event |-> event,
                  connectTid |-> tid, announceTid |-> <<>>,
                  connectResp |-> NoDatagram, announceResp |-> NoDatagram,
                  r |-> UDPFailure(Nil)]
    /\ run = NoRun

\* the connect request is written and the tracker answers it with d
UDPConnect(d) ==
    /\ calc.op = "udp"
    /\ calc.stage = "connect"
    /\ \E read \in UDPRead(d, ConnectRespLen) :
          LET r == udpConnect(calc.connectTid, read)
          IN  calc' = [calc EXCEPT !.connectResp = d, !.r = r,
                                   !.stage = IF r.err = Nil THEN "announce" ELSE "done"]
    /\ UNCHANGED <<pmVars, sessVars, netVars, run>>

\* rand.Read draws the second transaction id, the announce request is written and
\* the tracker answers it with d
UDPAnnounce(tid, d) ==
    /\ calc.op = "udp"
    /\ calc.stage = "announce"
    /\ \E read \in UDPRead(d, AnnounceBufLen) :
          calc' = [calc EXCEPT !.announceTid = tid, !.announceResp = d,
                               !.r = udpAnnounce(tid, read), !.stage = "done"]
    /\ UNCHANGED <<pmVars, sessVars, netVars, run>>

NextUDP ==
    \/ \E d \in ConnectDatagrams : UDPConnect(d)
    \/ \E tid \in TransactionIDs : \E d \in AnnounceDatagrams : UDPAnnounce(tid, d)

SpecUDP == InitUDP /\ [][NextUDP]_vars

(***************************************************************************)
(* SpecLock: the sync.RWMutex of FileStorage, one goroutine in             *)
(* GetCompletionBitfield and goroutines calling the methods that take the  *)
(* write lock. A writer that has called Lock holds back every later RLock  *)
(* until it has had the lock; it gets the lock when no reader holds it.    *)
(***************************************************************************)
LockPieces == 2
MaxWriters == 2
MaxLockCalls == 2
Writers == 1..MaxWriters
WriterMethods == {"WritePiece", "WriteBlock", "Sync", "Close"}

\* readers: the read locks held; writer: the goroutine that has called Lock and not
\* yet returned from Unlock (0: none)
NewRWMutex == [readers |-> 0, writer |-> 0]

\* RLock returns at once when no writer holds or awaits the lock
CanRLock(mutex) == mutex.writer = 0

InitLock ==
    /\ InitIdle
    /\ calc = [op |-> "lock", mutex |-> NewRWMutex,
               scan |-> [pc |-> "start", i |-> 0],
               writers |-> [w \in Writers |-> [pc |-> "idle", method |-> "", calls |-> 0]]]
    /\ run = NoRun

\* GetCompletionBitfield: fs.mutex.RLock()
GetCompletionBitfield_RLock ==
    /\ calc.op = "lock"
    /\ calc.scan.pc = "start"
    /\ CanRLock(calc.mutex)
    /\ calc' = [calc EXCEPT !.mutex.readers = @ + 1, !.scan.pc = "loop"]
    /\ UNCHANGED <<pmVars, sessVars, netVars, run>>

\* ReadPiece(i) called from the loop: fs.mutex.RLock()
ReadPiece_RLock ==
    /\ calc.op = "lock"
    /\ calc.scan.pc = "loop"
    /\ calc.scan.i < LockPieces
    /\ CanRLock(calc.mutex)
    /\ calc' = [calc EXCEPT !.mutex.readers = @ + 1, !.scan.pc = "read"]
    /\ UNCHANGED <<pmVars, sessVars, netVars, run>>

\* ReadPiece(i) returns: the deferred RUnlock, and the loop goes on
ReadPiece_RUnlock ==
    /\ calc.op = "lock"
    /\ calc.scan.pc = "read"
    /\ calc' = [calc EXCEPT !.mutex.readers = @ - 1, !.scan.pc = "loop", !.scan.i = @ + 1]
    /\ UNCHANGED <<pmVars, sessVars, netVars, run>>

\* GetCompletionBitfield returns after the loop: the deferred RUnlock
GetCompletionBitfield_RUnlock ==
    /\ calc.op = "lock"
    /\ calc.scan.pc = "loop"
    /\ calc.scan.i >= LockPieces
    /\ calc' = [calc EXCEPT !.mutex.readers = @ - 1, !.scan.pc = "done"]
    /\ UNCHANGED <<pmVars, sessVars, netVars, run>>

\* a writer calls fs.mutex.Lock(): from now on it is ahead of every new reader
Writer_Lock(w, method) ==
    /\ calc.op = "lock"
    /\ calc.writers[w].pc = "idle"
    /\ calc.writers[w].calls < MaxLockCalls
    /\ calc.mutex.writer = 0
    /\ calc' = [calc EXCEPT !.mutex.writer = w,
                            !.writers[w] = [@ EXCEPT !.pc = "wait", !.method = method]]
    /\ UNCHANGED <<pmVars, sessVars, netVars, run>>

\* Lock returns when the readers that held the lock have released it
Writer_Acquire(w) ==
    /\ calc.op = "lock"
    /\ calc.writers[w].pc = "wait"
    /\ calc.mutex.readers = 0
    /\ calc' = [calc EXCEPT !.writers[w].pc = "hold"]
    /\ UNCHANGED <<pmVars, sessVars, netVars, run>>

\* the method returns: the deferred Unlock
Writer_Unlock(w) ==
    /\ calc.op = "lock"
    /\ calc.writers[w].pc = "hold"
    /\ calc' = [calc EXCEPT !.mutex.writer = 0,
                            !.writers[w] = [@ EXCEPT !.pc = "idle", !.calls = @ + 1]]
    /\ UNCHANGED <<pmVars, sessVars, netVars, run>>

NextLock ==
    \/ GetCompletionBitfield_RLock
    \/ ReadPiece_RLock
    \/ ReadPiece_RUnlock
    \/ GetCompletionBitfield_RUnlock
    \/ \E w \in Writers : \E method \in WriterMethods : Writer_Lock(w, method)
    \/ \E w \in Writers : Writer_Acquire(w)
    \/ \E w \in Writers : Writer_Unlock(w)

SpecLock == InitLock /\ [][NextLock]_vars

(***************************************************************************)
(* SpecStop: SpecPeers with Stop, called at any moment, and with the       *)
(* goroutines of the dials and of the sessions scheduled fairly: a dial    *)
(* ends (DialTimeout and the deadlines of the handshake bound it),         *)
(* connectToPeer and handlePeer take their next step, and the message loop *)
(* of a session ends once the download manager is stopped or the           *)
(* connection closed (ReceiveMessage returns within its read deadline and  *)
(* the loop condition dm.active is false).                                 *)
(***************************************************************************)
\* the addresses the tracker responses of the search list
StopPeers == {q \in TrackerPeers : q.IP \in {"10.0.0.1", "10.0.0.2"}}

\* the message loop of s ends because the download manager is stopped or the
\* connection is closed
HandlePeerStopped(s) ==
    /\ ~dm.active \/ sess[s].closed
    /\ HandlePeerExit(s)

\* ReceiveMessage fails on the open connection of a running download manager
HandlePeerFailed(s) ==
    /\ dm.active /\ ~sess[s].closed
    /\ HandlePeerExit(s)

StopScheduled ==
    \/ \E d \in DOMAIN net : \E ans \in Answers : ConnectToPeer(d, ans)
    \/ \E d \in DOMAIN net : RegisterPeer(d)
    \/ \E s \in Sessions, ok \in BOOLEAN : HandlePeerStart(s, ok)
    \/ \E s \in Sessions : HandlePeerStopped(s)

NextStop ==
    \/ \E peers \in SUBSET StopPeers : AddPeers(peers)
    \/ \E s \in Sessions : HandlePeerFailed(s)
    \/ \E s \in Sessions : \E k \in Slots(s) : RequestBlocksCheck(s, k)
    \/ Stop
    \/ StopScheduled

SpecStop == InitPeers /\ [][NextStop]_vars /\ WF_vars(StopScheduled)

(***************************************************************************)
(* Properties of the piece manager                                         *)
(***************************************************************************)
Pieces == 0..(pm.numPieces - 1)

C2_NoDuplicateOutstanding ==
    \A s \in Sessions : \A t \in Sessions :
        s # t => sess[s].handed \cap sess[t].handed = {}

\* C3: no run reaches "all pieces complete" with a piece that was never
\* written to storage: once every bit is set, the bytes of storage in each
\* piece's range are the verified data of the piece.
C3_CompleteOnlyIfWritten ==
    PieceManager_IsComplete(pm) =>
        \A i \in Pieces :
            Slice(storage, i * pm.pieceLength, GetPieceLength(pm, i)) = pm.completePieces[i]

\* the requested mark of the block <<piece, offset>> is clear
Released(p, key) ==
    key[1] \in DOMAIN p.pendingPieces => key[2] \notin p.pendingPieces[key[1]].Requested

\* C5: when a peer session ends while block requests it issued are still
\* unanswered, the requested marks of those blocks are cleared in the piece
\* manager.
C5_SessionEndReleasesRequests ==
    [][\A s \in Sessions :
          (sess[s].pc # "exited" /\ sess'[s].pc = "exited") =>
              \A key \in sess[s].pending : Released(pm', key)]_vars

\* C6: no request message is written to a peer that has not sent unchoke,
\* whatever else it has sent and however the refill attempts interleave with
\* the message loop.
C6_NoRequestWithoutUnchoke ==
    \A s \in Sessions : ~sess[s].gotUnchoke => ~sess[s].wroteRequest

\* a session that never got an unchoke has received a bitfield and a piece message,
\* and the refill attempts started so far have all run and returned
C6_Witness ==
    \E s \in Sessions :
        /\ ~sess[s].gotUnchoke
        /\ sess[s].pc = "loop"
        /\ sess[s].conn.bitfield # <<>>
        /\ last.op = "AddBlock"
        /\ \A k \in Slots(s) : refill[s][k].pc = "idle"

\* C7: for every session the number of block requests sent and not yet
\* answered by a piece message (the size of its pending-request set) is at
\* most maxRequests.
C7_PendingAtMostMaxRequests ==
    \A s \in Sessions : Cardinality(sess[s].pending) <= maxRequests

(***************************************************************************)
(* Properties of the peer table and of the handshake                       *)
(***************************************************************************)
\* C8: the number of sessions registered in the peer table is at most maxPeers.
C8_PeerTableAtMostMaxPeers == Cardinality(DOMAIN dm.peers) <= maxPeers

\* the peer of dial d has replied with an info hash that differs from ours
Mismatched(d) ==
    /\ net[d].state # "dialing"
    /\ net[d].ans.up
    /\ Len(net[d].ans.infoHash) = Len(OurInfoHash)
    /\ \E k \in 1..Len(OurInfoHash) : net[d].ans.infoHash[k] # OurInfoHash[k]

\* C10: if the peer's handshake reply carries an info hash that differs from
\* ours in at least one byte, Connect returns an error, the socket is closed,
\* no session is registered in the peer table, and no session exists that
\* would read a peer-wire message from the connection or write one to it.
C10_MismatchEndsTheDial ==
    \A d \in DOMAIN net :
        Mismatched(d) =>
            /\ net[d].err = "handshake failed"
            /\ net[d].closed
            /\ net[d].state = "failed"
            /\ \A a \in DOMAIN dm.peers : dm.peers[a] # d
            /\ d \notin Sessions

\* a dial has ended on a mismatching reply while another one has become a session
\* that wrote its first message
C10_Witness ==
    \E d \in DOMAIN net : \E e \in DOMAIN net :
        /\ Mismatched(d)
        /\ net[d].state = "failed"
        /\ e \in Sessions
        /\ sess[e].pc = "loop"

(***************************************************************************)
(* Properties of the Connection                                            *)
(***************************************************************************)
\* the bitfield the messages received imply: the payload of the last bitfield
\* message with the bits of the later have messages set, zero-extended
ExpectedLen(payload, haves) ==
    LET need == {Len(payload)} \cup {(i \div 8) + 1 : i \in haves}
    IN  CHOOSE n \in need : \A m \in need : m <= n

ExpectedHas(payload, haves, i) ==
    \/ i \in haves
    \/ /\ i \div 8 < Len(payload)
       /\ (payload[(i \div 8) + 1] \div Pow2(7 - (i % 8))) % 2 = 1

\* C9: after any sequence of well-framed messages choked is true iff the last
\* choke / unchoke message was choke (true if none), peerInterested is true iff
\* the last interested / not interested message was interested (false if
\* none), and the peer bitfield is the payload of the last bitfield message
\* with the bits of all later have messages set, zero-extended as needed;
\* no other message changes any of them.
C9_StateFollowsLastMessages ==
    /\ wire.conn.choked = (wire.lastChoke # MsgUnchoke)
    /\ wire.conn.peerInterested = (wire.lastInterest = MsgInterested)
    /\ Len(wire.conn.bitfield) = ExpectedLen(wire.lastBitfield, wire.haves)
    /\ \A k \in 1..Len(wire.conn.bitfield) : wire.conn.bitfield[k] \in 0..255
    /\ \A i \in 0..(8 * Len(wire.conn.bitfield) - 1) :
          Connection_HasPiece(wire.conn, i) = ExpectedHas(wire.lastBitfield, wire.haves, i)

\* a bitfield message has been followed by have messages, one of them beyond the
\* payload's length, and both flags have been switched
C9_Witness ==
    /\ wire.lastBitfield # <<>>
    /\ \E i \in wire.haves : i \div 8 >= Len(wire.lastBitfield)
    /\ \E i \in wire.haves : i \div 8 < Len(wire.lastBitfield)
    /\ wire.lastChoke = MsgUnchoke
    /\ wire.lastInterest = MsgInterested


(***************************************************************************)
(* Properties of the tracker client                                        *)
(***************************************************************************)
\* the announce URL, then the announce-list URLs in tier order
RECURSIVE Flatten(_)
Flatten(tiers) == IF tiers = <<>> THEN <<>> ELSE Head(tiers) \o Flatten(Tail(tiers))

\* a sequence without the later occurrences of its elements
RECURSIVE FirstOccurrences(_)
FirstOccurrences(seq) ==
    IF seq = <<>> THEN <<>>
    ELSE LET front == SubSeq(seq, 1, Len(seq) - 1)
             kept == FirstOccurrences(front)
         IN  IF \E k \in 1..Len(front) : front[k] = seq[Len(seq)]
             THEN kept ELSE Append(kept, seq[Len(seq)])

TrackerOrder(t) == FirstOccurrences(<<t.Announce>> \o Flatten(t.AnnounceList))

\* a contact succeeded: no transport or parse error, and the answer carries no
\* `failure reason`
Succeeded(a) == a.r.err = Nil /\ a.ans.failure.kind = "absent"

\* C11: GetPeers contacts the trackers strictly in the order announce URL, then
\* announce-list URLs in tier order without duplicates; it returns the response of
\* the first tracker that succeeds (no transport or parse error and no `failure
\* reason`) without contacting a later one; it returns an error if and only if
\* every tracker failed.
C11_FirstSuccessInOrder ==
    calc.op = "GetPeers" =>
        LET order == TrackerOrder(calc.t)
            n == Len(calc.asked)
        IN  /\ n <= Len(order)
            /\ \A k \in 1..n : calc.asked[k].url = order[k]
            /\ \A k \in 1..(n - 1) : ~Succeeded(calc.asked[k])
            /\ (calc.returned /\ calc.err = Nil) =>
                    /\ n >= 1
                    /\ Succeeded(calc.asked[n])
                    /\ calc.resp = calc.asked[n].r.resp
            /\ (calc.returned /\ calc.err # Nil) =>
                    /\ n = Len(order)
                    /\ \A k \in 1..n : ~Succeeded(calc.asked[k])
            /\ (~calc.returned /\ n >= 1) => ~Succeeded(calc.asked[n])


(***************************************************************************)
(* Properties of the run                                                   *)
(***************************************************************************)
Announced(event) == {k \in 1..Len(run.announces) : run.announces[k].event = event}

\* C12: during one download `completed` is announced at most once, in both run
\* modes and for any ordering of completion detection and the shutdown signal;
\* `stopped` is announced only on a shutdown (a signal was received) that happens
\* before completion (no `completed` was announced before it).
C12_CompletedAtMostOnce ==
    /\ Cardinality(Announced("completed")) <= 1
    /\ \A k \in Announced("stopped") :
          /\ run.signal
          /\ \A j \in Announced("completed") : j > k


\* the initial announce was sent and every tracker failed
InitialAnnounceFailed ==
    /\ Len(run.announces) >= 1
    /\ run.announces[1] = Announce("started", FALSE)

\* cmd.Run / Runner.Run has returned
RunReturned == IF run.mode = "cmd" THEN run.main = "returned" ELSE run.exited

\* this step is a periodic announce on which every tracker failed
PeriodicAnnounceFails ==
    run'.announces = Append(run.announces, Announce("", FALSE))

\* C13: if every tracker fails on the initial `started` announce, no peer session
\* is started (no peer is dialed) and the run terminates with an error (it starts
\* no goroutine, and what it returns is an error); if every tracker fails on a
\* periodic announce, the step changes nothing but the announce history: the
\* download manager stays active, the sessions and the dials are untouched, and the
\* goroutine stays in its loop for the next tick.
C13_InitialFailureFatalLaterSwallowed ==
    /\ [](InitialAnnounceFailed =>
            /\ net = <<>> /\ Sessions = {}
            /\ run.periodic = "none" /\ run.monitor = "none"
            /\ run.main \in {"defer", "returned"}
            /\ RunReturned => run.err # Nil)
    /\ [][PeriodicAnnounceFails =>
            /\ dm.active /\ dm' = dm
            /\ sess' = sess /\ refill' = refill /\ net' = net /\ pm' = pm
            /\ run'.periodic = "ticking"]_vars


\* the signal was delivered and the final announce is still to come
BeforeFinalAnnounce ==
    /\ run.signal
    /\ IF run.mode = "cmd" THEN run.main \in {"announce", "wait"} ELSE run.shut # "done"

\* the signal was processed (the context is cancelled) and Stop has returned
StoppedAfterSignal == run.signal /\ run.cancelled /\ ~dm.active

\* C14: once the cancellation signal has been processed and Stop has returned, no
\* session performs a StartPiece, GetNextBlockRequest or AddBlock that changes the
\* piece manager, whatever the sessions were in the middle of; nor does the piece
\* manager change between the cancellation signal and the final tracker announce.
C14_NoMutationAfterStop ==
    [][(StoppedAfterSignal \/ BeforeFinalAnnounce) => pm' = pm]_vars


\* closed by Stop: the connection is closed and handlePeer has not returned
ClosedByStop(s) == sess[s].closed /\ sess[s].pc # "exited"

\* C15: in a run whose initial announce found peers (peers were dialed), the
\* download manager is stopped (active false, connections closed) only after a
\* cancellation signal was received or the download completed: until then the
\* sessions keep their connections, in both run modes.
C15_StoppedOnlyOnShutdown ==
    (net # <<>> /\ ~(run.signal \/ PieceManager_IsComplete(pm))) =>
        /\ dm.active
        /\ \A s \in Sessions : ~ClosedByStop(s)


(***************************************************************************)
(* Properties of the codec                                                 *)
(***************************************************************************)
Decoded(kind) ==
    calc.op = "bencode" /\ calc.src.kind = kind /\ calc.stage \in {"decoded", "reencoded"}

StrictlyAscending(keys) == \A k \in 1..(Len(keys) - 1) : BytesLess(keys[k], keys[k + 1])

\* C16: the decoder rejects every dictionary whose keys are not in strictly
\* ascending raw-byte order, duplicates included, whatever the key, the
\* zero-length key included.
C16_UnsortedKeysRejected ==
    (Decoded("dictionary") /\ ~StrictlyAscending(calc.src.keys)) => calc.r.err # Nil

\* the canonical decimal form of an integer of the width: "0", or an optional "-",
\* a digit other than "0" and further digits, the value within the range
Canonical(body) ==
    \/ body = <<Byte0>>
    \/ LET digits == IF body # <<>> /\ body[1] = ByteMinus THEN Tail(body) ELSE body
       IN  /\ digits # <<>>
           /\ \A k \in 1..Len(digits) : IsDigit(digits[k])
           /\ digits[1] # Byte0
           /\ IF digits = body
              THEN DigitsValue(digits) <= Pow2(IntBits - 1) - 1
              ELSE DigitsValue(digits) <= Pow2(IntBits - 1)

\* C17: the decoder accepts the token i<body>e exactly when body is the canonical
\* decimal form of an integer of the width: it fails on leading zeros (also after
\* a minus sign), on negative zero in any spelling, on a leading plus sign, on an
\* empty body and on any non-digit character.
C17_IntegerAcceptedIffCanonical ==
    Decoded("integer") => (calc.r.err = Nil <=> Canonical(calc.src.body))

\* equality of decoded values
RECURSIVE SameValue(_, _)
SameValue(x, y) ==
    /\ TypeOf(x) = TypeOf(y)
    /\ CASE TypeOf(x) \in {"int", "str"} -> ContentOf(x) = ContentOf(y)
         [] TypeOf(x) = "list" ->
                /\ Len(ContentOf(x)) = Len(ContentOf(y))
                /\ \A k \in 1..Len(ContentOf(x)) : SameValue(ContentOf(x)[k], ContentOf(y)[k])
         [] TypeOf(x) = "dict" ->
                /\ DOMAIN ContentOf(x) = DOMAIN ContentOf(y)
                /\ \A k \in DOMAIN ContentOf(x) : SameValue(ContentOf(x)[k], ContentOf(y)[k])
         [] OTHER -> FALSE

\* C18: for every value x built from integers, byte strings, lists and
\* dictionaries, decode(encode(x)) succeeds, consumes every byte and equals x; and
\* for the bytes b the encoder produced, encode(decode(b)) equals b.
C18_RoundTrip ==
    /\ Decoded("value") =>
            /\ calc.r.err = Nil
            /\ calc.r.pos = Len(calc.b) + 1
            /\ SameValue(calc.r.val, calc.x)
    /\ (Decoded("value") /\ calc.stage = "reencoded") => calc.e = calc.b

\* a dictionary of three keys, the zero-length key among them, holding a list and a
\* dictionary, went through encode, decode and encode
C18_Witness ==
    /\ Decoded("value") /\ calc.stage = "reencoded"
    /\ TypeOf(calc.x) = "dict"
    /\ Cardinality(DOMAIN ContentOf(calc.x)) = 3
    /\ <<>> \in DOMAIN ContentOf(calc.x)
    /\ \E k \in DOMAIN ContentOf(calc.x) : TypeOf(ContentOf(calc.x)[k]) = "list"
    /\ \E k \in DOMAIN ContentOf(calc.x) : TypeOf(ContentOf(calc.x)[k]) = "dict"


\* C19: for every byte string that ParseTorrentFile accepts, single-file and
\* multi-file, the re-encoding of the decoded info dictionary is byte-identical
\* to the bytes the info dictionary occupies in the file, so the info hash
\* computed by re-encoding equals the SHA-1 of the original info bytes.
C19_InfoHashOfOriginalBytes ==
    (calc.op = "bencode" /\ calc.stage = "parsed" /\ calc.t.err = Nil)
        => calc.t.InfoHash = Sha1(calc.src.body)

\* C20: for every bitfield of n pieces and every i in [0, n): after SetPiece(i),
\* HasPiece(i) is true; after ClearPiece(i), HasPiece(i) is false; both leave
\* HasPiece(j) unchanged for every j other than i; for an index outside [0, n)
\* SetPiece and ClearPiece return an error and change no bit, and HasPiece
\* returns false.
C20_SetClearHas ==
    (calc.op = "bitfield" /\ calc.call # "none") =>
        IF calc.i \in 0..(calc.bf.size - 1)
        THEN /\ calc.err = Nil
             /\ Bitfield_HasPiece(calc.bf, calc.i) = (calc.call = "set")
             /\ \A j \in PieceIndices \ {calc.i} :
                    Bitfield_HasPiece(calc.bf, j) = Bitfield_HasPiece(calc.before, j)
        ELSE /\ calc.err # Nil
             /\ calc.bf = calc.before
             /\ ~Bitfield_HasPiece(calc.bf, calc.i)

\* piece 7, present, was cleared in a bitfield of nine pieces that holds piece 6,
\* in the same byte, and piece 8, in the next
C20_Witness ==
    /\ calc.op = "bitfield" /\ calc.call = "clear" /\ calc.i = 7
    /\ calc.bf.size = 9
    /\ Bitfield_HasPiece(calc.before, 7)
    /\ Bitfield_HasPiece(calc.bf, 6)
    /\ Bitfield_HasPiece(calc.bf, 8)

(***************************************************************************)
(* Properties of the file storage                                          *)
(***************************************************************************)
\* the range of the last call lies inside [0, totalLength)
RangeInside ==
    /\ calc.call.offset < calc.fs.totalLength
    /\ calc.call.offset + calc.call.length <= calc.fs.totalLength

\* C21: for any file layout (one or several files, zero-length files included)
\* and any range [a, b) inside [0, total_length), reading b-a bytes at virtual
\* offset a after writing that range returns exactly the written bytes, also
\* when the range spans several files; virtual address v is stored in the file k
\* with start_k <= v < start_k + len_k at file offset v - start_k.
C21_ReadReturnsWritten ==
    calc.op = "storage" =>
        /\ \A k \in 1..Len(calc.fs.fileInfos) :
              /\ Len(calc.fs.files[k]) = calc.fs.fileInfos[k].Length
              /\ \A o \in 0..(calc.fs.fileInfos[k].Length - 1) :
                    calc.fs.files[k][o + 1] = calc.virtual[calc.fs.fileInfos[k].Offset + o + 1]
        /\ (calc.call.kind = "write" /\ RangeInside) =>
              /\ calc.call.err = Nil
              /\ calc.call.n = calc.call.length
              /\ readAt(calc.fs, calc.call.length, calc.call.offset).data = calc.call.data
        /\ (calc.call.kind = "read" /\ RangeInside) =>
              /\ calc.call.err = Nil
              /\ calc.call.n = calc.call.length
              /\ calc.call.data = SubSeq(calc.virtual, calc.call.offset + 1,
                                         calc.call.offset + calc.call.length)

\* a range written across three files, a zero-length file in the middle, was
\* read back after a second write inside it
C21_Witness ==
    /\ calc.op = "storage" /\ calc.call.kind = "read" /\ RangeInside
    /\ Len(calc.fs.fileInfos) = 3
    /\ calc.fs.fileInfos[1].Length = 2
    /\ calc.fs.fileInfos[2].Length = 0
    /\ calc.fs.fileInfos[3].Length = 2
    /\ calc.call.offset = 1 /\ calc.call.length = 3
    /\ calc.call.data = <<11, 21, 13>>


(***************************************************************************)
(* Properties of the rarest-first strategy                                 *)
(***************************************************************************)
\* C22: SelectPiece returns an index that is in the candidate set, is set in
\* the peer's bitfield, and has the minimal counter among all such indices; it
\* returns none (an error) exactly when the intersection is empty. After
\* observing the peer bitfields {0,1}, {1,2} and {2}, with candidates {0,1,2}
\* and a peer bitfield {0,1,2}, it returns 0.
C22_SelectsRarestOfPeer ==
    (calc.op = "strategy" /\ calc.select.called) =>
        LET sel == calc.select
            both == sel.availablePieces \cap sel.peer
        IN  /\ (sel.err # Nil) <=> (both = {})
            /\ sel.err # Nil => sel.index = -1
            /\ sel.err = Nil =>
                  /\ sel.index \in both
                  /\ \A j \in both : calc.seen[sel.index] <= calc.seen[j]
            /\ (calc.seen = (0 :> 1 @@ 1 :> 2 @@ 2 :> 2)
                    /\ sel.availablePieces = {0, 1, 2} /\ sel.peer = {0, 1, 2})
                  => sel.index = 0

\* the bitfields {0,1}, {1,2} and {2} were observed and SelectPiece answered
\* for the candidates {0,1,2} and a peer that holds all three
C22_Witness ==
    /\ calc.op = "strategy" /\ calc.select.called
    /\ calc.observed = 3
    /\ calc.seen = (0 :> 1 @@ 1 :> 2 @@ 2 :> 2)
    /\ calc.select.availablePieces = {0, 1, 2}
    /\ calc.select.peer = {0, 1, 2}
    /\ calc.select.err = Nil


\* C23: the run returns success (nil error, exit code 0) only when every piece
\* has been verified complete; whenever it returns with at least one piece not
\* verified (cancellation before completion, tracker failure, no peers) it
\* returns a non-nil error.
C23_SuccessOnlyWhenComplete ==
    (run.mode # "none" /\ RunReturned /\ run.err = Nil) => PieceManager_IsComplete(pm)


\* the indices with a download record
InProgress == DOMAIN pm.pendingPieces

\* C24: the piece indices are partitioned into complete (bit set), in-progress
\* (a download record exists) and missing (neither): no index is both complete
\* and in progress under any interleaving of StartPiece, AddBlock and
\* CancelPiece, and GetMissingPieces returns exactly the indices that are
\* neither complete nor in progress.
C24_InventoryPartition ==
    /\ InProgress \subseteq Pieces
    /\ \A i \in Pieces : ~(Bitfield_HasPiece(pm.bitfield, i) /\ i \in InProgress)
    /\ PieceManager_GetMissingPieces(pm) =
          {i \in Pieces : ~Bitfield_HasPiece(pm.bitfield, i) /\ i \notin InProgress}

\* the bytes buffered in a download record
RECURSIVE BufferedBytes(_, _)
BufferedBytes(blocks, offsets) ==
    IF offsets = {} THEN 0
    ELSE LET o == CHOOSE x \in offsets : TRUE
         IN  Len(blocks[o]) + BufferedBytes(blocks, offsets \ {o})

\* C25: for every download record, the accumulated byte count (Downloaded)
\* equals the sum of the lengths of the blocks currently buffered in that
\* record, for any sequence of AddBlock calls, repeated deliveries of the same
\* offset included.
C25_DownloadedIsBufferedBytes ==
    \A i \in InProgress :
        pm.pendingPieces[i].Downloaded =
            BufferedBytes(pm.pendingPieces[i].Blocks, DOMAIN pm.pendingPieces[i].Blocks)

\* the blocks AddBlock may be handed
AddBlockCalls ==
    {<<i, begin, data>> : i \in -1..pm.numPieces, begin \in -1..pm.pieceLength,
                          data \in {<<0>>, <<0, 0>>, <<0, 0, 0>>}}

\* C26: AddBlock returns an error and leaves the download record (buffers,
\* requested marks, accumulated bytes) and the bitfield unchanged when the piece
\* is not in progress, when the offset is not a multiple of the block grid, or
\* when offset + len(data) exceeds the piece's length.
C26_AddBlockRejects ==
    \A call \in AddBlockCalls :
        LET i == call[1]
            begin == call[2]
            data == call[3]
            r == AddBlock(pm, i, begin, data)
        IN  (\/ i \notin InProgress
             \/ begin % BlockSize # 0
             \/ begin + Len(data) > pm.pendingPieces[i].Length)
                => (r.err # Nil /\ r.pm = pm)

\* the grid offsets of a record that are neither buffered nor marked requested
FreeOffsets(rec) ==
    {o \in 0..(rec.Length - 1) :
        o % BlockSize = 0 /\ o \notin DOMAIN rec.Blocks /\ o \notin rec.Requested}

\* C27: GetNextBlockRequest(i) on an in-progress piece returns the lowest grid
\* offset that is neither buffered nor marked requested, with length
\* min(BlockSize, piece_len - offset), and marks it requested; it returns none
\* exactly when every grid offset is buffered or requested, and changes nothing
\* in that case; successive calls hand out offsets in ascending order.
C27_NextBlockIsLowestFree ==
    \A i \in InProgress :
        LET rec == pm.pendingPieces[i]
            r == GetNextBlockRequest(pm, i)
            again == GetNextBlockRequest(r.pm, i)
        IN  /\ r.err = Nil
            /\ (r.req = NoRequest) <=> (FreeOffsets(rec) = {})
            /\ r.req = NoRequest => r.pm = pm
            /\ r.req # NoRequest =>
                  /\ r.req.PieceIndex = i
                  /\ r.req.Begin \in FreeOffsets(rec)
                  /\ \A o \in FreeOffsets(rec) : r.req.Begin <= o
                  /\ r.req.Length = Min(BlockSize, rec.Length - r.req.Begin)
                  /\ r.pm = [pm EXCEPT !.pendingPieces[i].Requested = @ \cup {r.req.Begin}]
                  /\ again.req # NoRequest => again.req.Begin > r.req.Begin

\* the block at offset 0 of piece 0 is buffered without having been requested,
\* and GetNextBlockRequest has handed out the offset after it
C27_Witness ==
    /\ 0 \in InProgress
    /\ 0 \in DOMAIN pm.pendingPieces[0].Blocks
    /\ pm.pendingPieces[0].Requested = {BlockSize}
    /\ FreeOffsets(pm.pendingPieces[0]) = {}


(***************************************************************************)
(* Properties of the refill attempts                                       *)
(***************************************************************************)
\* this step is a turn of the loop of a requestBlocks goroutine of session s in
\* which SendRequest writes a request to the peer
WritesRequest(s) ==
    \E k \in Slots(s) :
        /\ refill[s][k].pc = "loop"
        /\ refill'[s][k] # refill[s][k]
        /\ GetNextBlockRequest(pm, refill[s][k].piece).err = Nil
        /\ GetNextBlockRequest(pm, refill[s][k].piece).req # NoRequest
        /\ ~sess[s].closed

\* the last choke or unchoke of the peer that conn.HandleMessage has processed is a
\* choke: every unchoke received was processed, and the connection is choked again
ChokeProcessed(s) ==
    /\ sess[s].gotUnchoke
    /\ sess[s].pc # "unchoke"
    /\ sess[s].conn.choked

\* C28: after a choke message from a peer has been processed, no request is
\* written to that peer until a later unchoke from it has been processed, also
\* when a refill attempt was already running when the choke was processed.
C28_NoRequestAfterChoke ==
    [][\A s \in Sessions : ChokeProcessed(s) => ~WritesRequest(s)]_vars


\* the sessions of Spec
LiveSessions == {1}

\* the peer of s advertises a piece we still need that has a grid block neither
\* buffered nor requested, and the pipeline of s is not full
Eligible(s) ==
    /\ Cardinality(sess[s].pending) < maxRequests
    /\ \E i \in Pieces :
          /\ ~Bitfield_HasPiece(pm.bitfield, i)
          /\ Connection_HasPiece(sess[s].conn, i)
          /\ i \in InProgress => FreeOffsets(pm.pendingPieces[i]) # {}

\* handleMessage has started the goroutine for an unchoke, the first of the peer
UnchokeReceived(s) == sess[s].pc = "unchoke" /\ ~sess[s].wroteRequest

\* what releases the download manager from writing a request: the session or the
\* download manager has ended, the peer has choked us again, or there is nothing
\* left to ask this peer for
Excused(s) ==
    \/ sess[s].pc = "exited" \/ sess[s].closed \/ ~dm.active
    \/ ChokeProcessed(s)
    \/ ~Eligible(s)

EndsEmpty(s, k) ==
    /\ refill[s][k].pc \in {"select", "loop"}
    /\ ~refill[s][k].wrote
    /\ refill'[s][k].pc = "idle"
    /\ ~WritesRequest(s)

\* every grid block of the piece the attempt has selected is requested already
SelectedExhausted(s, k) ==
    /\ refill[s][k].pc = "loop"
    /\ refill[s][k].piece \in InProgress
    /\ FreeOffsets(pm.pendingPieces[refill[s][k].piece]) = {}

\* the peer of s advertises a piece other than the selected one that is not
\* complete and has a grid block neither buffered nor requested
OtherEligible(s, k) ==
    \E i \in Pieces \ {refill[s][k].piece} :
        /\ ~Bitfield_HasPiece(pm.bitfield, i)
        /\ Connection_HasPiece(sess[s].conn, i)
        /\ i \in InProgress => FreeOffsets(pm.pendingPieces[i]) # {}

\* C30: a refill attempt that runs for an unchoked peer whose pipeline is not
\* full, while that peer advertises a piece not yet complete with a block neither
\* buffered nor requested, writes at least one request; it does not stop at a
\* selected piece whose blocks are all requested while another piece is eligible.
C30_AttemptWritesRequest ==
    [][\A s \in Sessions : \A k \in Slots(s) :
          (/\ dm.active /\ ~sess[s].closed
           /\ ~IsChoked(sess[s].conn)
           /\ Cardinality(sess[s].pending) < maxRequests
           /\ SelectedExhausted(s, k)
           /\ OtherEligible(s, k))
          => ~EndsEmpty(s, k)]_vars

\* C31: on every session the first message written after the handshake is
\* interested: no request and no keep-alive is written before it, and a session
\* whose interested could not be written ends without a request written.
C31_InterestedFirst ==
    \A s \in Sessions :
        /\ sess[s].first \in {"none", "interested"}
        /\ (sess[s].wroteRequest \/ sess[s].wroteKeepAlive) => sess[s].first = "interested"
        /\ (sess[s].pc = "exited" /\ sess[s].first = "none") => ~sess[s].wroteRequest

\* a request and a keep-alive were written on a session
C31_Witness ==
    \E s \in Sessions : sess[s].wroteRequest /\ sess[s].wroteKeepAlive

\* the pieces the peer of the connection advertises
Advertised(c) == {i \in Pieces : Connection_HasPiece(c, i)}

\* this step is conn.HandleMessage of the first bitfield message of the peer of s:
\* nothing was advertised and several pieces are at once (a have sets one bit)
LearnsBitfield(s) ==
    /\ Advertised(sess[s].conn) = {}
    /\ Cardinality(Advertised(sess'[s].conn)) >= 2

\* C32: each time a session learns the bitfield of its peer, the counters of the
\* rarest-first strategy are incremented for the bits set, so that the counter of
\* piece i is the number of peer bitfields observed that advertise piece i.
C32_CountersFollowBitfields ==
    [][\A s \in Sessions :
          LearnsBitfield(s) =>
              \A i \in Advertised(sess'[s].conn) :
                  CountOf(pieceCounts', i) = CountOf(pieceCounts, i) + 1]_vars


\* requestUDPTracker has returned a response and no error
UDPSucceeded == calc.op = "udp" /\ calc.stage = "done" /\ calc.r.ok

\* the datagram has at least n bytes and starts with the action and the id
Carries(d, n, action, tid) ==
    /\ ~d.lost
    /\ Len(d.bytes) >= n
    /\ Uint32At(d.bytes, 0) = action
    /\ SubSeq(d.bytes, 5, 8) = tid

\* the announce response is a header followed by whole peer entries
GoodAnnounceResponse ==
    /\ Carries(calc.announceResp, AnnounceHeaderLen, ActionAnnounce, calc.announceTid)
    /\ (Len(calc.announceResp.bytes) - AnnounceHeaderLen) % PeerEntryLen = 0

\* a failed announce yields no peers
FailureYieldsNoPeers ==
    (calc.op = "udp" /\ calc.stage = "done" /\ ~calc.r.ok) =>
        (calc.r.err # Nil /\ calc.r.peers = NoPeers)

\* C33 as stated: a UDP announce succeeds only if the connect response is exactly
\* 16 bytes with action 0 and the transaction id of the connect request, and the
\* announce response is at least 20 bytes with action 1 and the transaction id of
\* the announce request followed by whole 6-byte peer entries; any other response
\* fails and yields no peers.
C33_ExactConnectResponse ==
    /\ UDPSucceeded =>
          /\ Carries(calc.connectResp, ConnectRespLen, ActionConnect, calc.connectTid)
          /\ Len(calc.connectResp.bytes) = ConnectRespLen
          /\ GoodAnnounceResponse
    /\ FailureYieldsNoPeers

\* C33 amended: the connect response has at least 16 bytes, of which the first 16
\* carry action 0 and the transaction id of the connect request; the rest as stated.
C33_ConnectResponsePrefix ==
    /\ UDPSucceeded =>
          /\ Carries(calc.connectResp, ConnectRespLen, ActionConnect, calc.connectTid)
          /\ GoodAnnounceResponse
    /\ FailureYieldsNoPeers

\* an announce succeeded with peers, after the tracker had answered with the
\* transaction id of the announce request, which differs from that of the connect
C33_Witness ==
    /\ UDPSucceeded
    /\ calc.r.peers # NoPeers
    /\ calc.announceTid # calc.connectTid

\* the bytes of the pieces verified so far, from piece i on
RECURSIVE VerifiedBytesFrom(_, _)
VerifiedBytesFrom(p, i) ==
    IF i >= p.numPieces THEN 0
    ELSE (IF Bitfield_HasPiece(p.bitfield, i) THEN GetPieceLength(p, i) ELSE 0)
         + VerifiedBytesFrom(p, i + 1)

\* this step sends an announce
SendsAnnounce == Len(run'.announces) > Len(run.announces)

\* C34: in every announce sent to a tracker, for every event, the left field is
\* the total length minus the bytes of the pieces verified so far; it is 0 in the
\* completed announce.
C34_LeftIsRemaining ==
    [][SendsAnnounce =>
          LET sent == run'.announces[Len(run'.announces)]
          IN  /\ sent.left = pm.totalLength - VerifiedBytesFrom(pm, 0)
              /\ sent.event = "completed" => sent.left = 0]_vars


\* GetCompletionBitfield waits in the RLock of ReadPiece for a writer that has
\* called Lock
ScanBlocked ==
    /\ calc.scan.pc = "loop"
    /\ calc.scan.i < LockPieces
    /\ ~CanRLock(calc.mutex)

\* that writer waits in Lock for a read lock to be released, and the only read lock
\* held is the one GetCompletionBitfield took first
WriterBlockedByScan ==
    /\ calc.mutex.writer \in Writers
    /\ calc.writers[calc.mutex.writer].pc = "wait"
    /\ calc.mutex.readers = 1

\* C35: GetCompletionBitfield always terminates when it runs concurrently with the
\* storage writers: no interleaving of its nested read-lock acquisitions with the
\* Lock of a writer leaves both blocked forever.
C35_NoLockCycle ==
    calc.op = "lock" => ~(ScanBlocked /\ WriterBlockedByScan)


\* the next step of refill attempt k of s is the read of conn.choked in IsChoked;
\* the goroutine holds no lock there (peerConn.mutex is taken after it, and the
\* Connection has no lock of its own)
AboutToReadChoked(s, k) == refill[s][k].pc = "check"

\* the next step of handlePeer is the write of conn.choked in conn.HandleMessage,
\* after handleMessage has started the goroutine; it holds no lock either
AboutToWriteChoked(s) == sess[s].pc = "unchoke"

\* C36: every read of the choked flag (and of the peer bitfield) of a session made
\* by a refill attempt is ordered by a lock with the writes of the message handler
\* of that session: in no reachable state are such a read and such a write both
\* about to happen with no synchronization between them.
C36_AccessesOrdered ==
    \A s \in Sessions : \A k \in Slots(s) :
        ~(AboutToReadChoked(s, k) /\ AboutToWriteChoked(s))

\* ParseTorrentFile has produced a metainfo value of a multi-file torrent
ParsedMultiFile ==
    /\ calc.op = "bencode"
    /\ calc.stage = "parsed"
    /\ calc.t.err = Nil
    /\ calc.t.Info.Files # <<>>

\* C37: ParseTorrentFile fails for every multi-file torrent in which some file
\* entry has an empty path list or a path list with an empty or a "." component:
\* the files of a metainfo value produced have none of these.
C37_BadPathsRejected ==
    ParsedMultiFile =>
        \A f \in 1..Len(calc.t.Info.Files) :
            LET path == calc.t.Info.Files[f].Path
            IN  /\ Len(path) > 0
                /\ \A k \in 1..Len(path) : path[k] \notin {<<>>, DotComponent}


\* the handlePeer loop of s runs and its connection is not closed
LiveSession(s) == sess[s].pc \in {"loop", "unchoke"} /\ ~sess[s].closed

\* s is the entry of the peer table under its address
Registered(s) ==
    /\ sess[s].addr \in DOMAIN dm.peers
    /\ dm.peers[sess[s].addr] = s

\* C38: every live peer session is the entry registered under its address in the
\* peer table: two live sessions never share a remote address, and the teardown of
\* a session never removes the entry of another live session, whatever the tracker
\* responses and the interleaving of the dials.
C38_LiveSessionsRegistered ==
    \A s \in Sessions : LiveSession(s) => Registered(s)


\* C39: no reachable state of the piece manager holds a download record in which
\* every grid offset has a buffered block: the AddBlock call that buffers the last
\* grid offset resolves the piece (complete, or discarded on digest mismatch), for
\* blocks of any accepted length.
C39_FullRecordResolved ==
    \A i \in InProgress : ~AllGridBuffered(pm.pendingPieces[i])


\* no dial is in flight, every session has exited with its connection closed, and
\* the peer table is empty
AllSessionsGone ==
    /\ \A d \in DOMAIN net : net[d].state \in {"failed", "registered"}
    /\ \A s \in Sessions : sess[s].pc = "exited" /\ sess[s].closed
    /\ DOMAIN dm.peers = {}

\* C40: after Stop has been called, eventually every peer session has exited, every
\* peer connection is closed and the peer table is empty and stays empty, also for
\* dials that were in flight when Stop ran and for sessions that were no longer in
\* the table.
C40_StopEndsEverySession == (~dm.active) ~> [](AllSessionsGone)

\* the download manager is stopped and two sessions on one address, of which Stop
\* could find at most one in the table, have both ended
C40_Witness ==
    /\ ~dm.active
    /\ AllSessionsGone
    /\ \E s, t \in Sessions : s # t /\ sess[s].addr = sess[t].addr

=============================================================================
